---- MODULE Spec2Model ----
(***************************************************************************)
(* Insightify: the time-estimation and aggregation engine.                 *)
(*                                                                         *)
(*   utils/github_api.py      GitHubClient.get_daily_commits,              *)
(*                            _detect_languages_from_commits,              *)
(*                            _estimate_time_spent                         *)
(*   scripts/monthly_report.py  aggregate_monthly_data,                    *)
(*                            calculate_longest_streak                     *)
(*                                                                         *)
(* The functions are sequential and synchronous.  Each one is modelled as  *)
(* an operator computed the way the code computes it, and is exercised by  *)
(* a specification of its own: the initial states draw its arguments from  *)
(* bounded sets and one action performs the call.                          *)
(*                                                                         *)
(* Units.  A timestamp is a wall-clock reading in minutes together with    *)
(* its UTC offset in minutes; hours are kept in hundredths (0.5 h = 50),   *)
(* the resolution round(x, 2) leaves.  With timestamps on whole minutes    *)
(* the exact value is never within 1/600 h of a rounding tie, so floating  *)
(* point and exact arithmetic round alike.  With timestamps to the second  *)
(* they do not: _estimate_time_spent is modelled a second time on seconds, *)
(* in the double-precision arithmetic of a Python float.                   *)
(***************************************************************************)
EXTENDS Integers, Sequences, FiniteSets, TLC

VARIABLES
    est_commits,     \* _estimate_time_spent: the argument `commits`
    est_result,      \* _estimate_time_spent: the returned value
    est_pc,          \* "call" before the call, "return" after it
    daily_repos,     \* get_daily_commits: what self.user.get_repos() yields
    daily_result,    \* get_daily_commits: the returned record, or the raise
    daily_pc,        \* "call" before the call, "return" after it
    streak_days,     \* calculate_longest_streak: the argument commits_by_day
    streak_result,   \* calculate_longest_streak: the returned value, or the raise
    streak_pc,       \* "call" before the call, "return" after it
    month_data,      \* aggregate_monthly_data: the argument daily_data
    month_result,    \* aggregate_monthly_data: the returned record, or the raise
    month_pc,        \* "call" before the call, "return" after it
    script,          \* the script that runs: daily_progress.py or monthly_report.py
    main_pc,         \* main(): the step it is about to take, "end" when the process ended
    exit_status,     \* "running", the exit status "0" or "1", or "killed"
    data_dir,        \* the files of the data directory
    record,          \* main(): commit_data (daily), monthly_data (monthly)
    loaded,          \* main() of the monthly script: daily_data
    insights,        \* main(): insights
    chart_paths,     \* main() of the monthly script: chart_paths
    journal,         \* what the run did to the outside: writes, requests, deliveries
    config,          \* what the run is given: the GitHub account, the enabled channels
    ins_data,        \* generate_..._insights: the argument commit_data / monthly_data
    ins_service,     \* generate_..._insights: what generate_content will do
    ins_result,      \* generate_..._insights: the returned text, or the raise
    ins_pc,          \* which generate_..._insights is about to be called, "return" after it
    embed_insights,  \* _build_..._embed: the argument insights
    embed_result,    \* _build_..._embed: the fields appended for the insights
    embed_pc,        \* "call" before the call, then the builder that was called
    sec_commits,     \* _estimate_time_spent on timestamps to the second: the argument
    sec_result,      \* _estimate_time_spent on timestamps to the second: the returned value
    sec_pc           \* "call" before the call, "return" after it

est_vars == <<est_commits, est_result, est_pc>>

daily_vars == <<daily_repos, daily_result, daily_pc>>

streak_vars == <<streak_days, streak_result, streak_pc>>

month_vars == <<month_data, month_result, month_pc>>

run_vars == <<script, main_pc, exit_status, data_dir, record, loaded, insights,
              chart_paths, journal, config>>

ins_vars == <<ins_data, ins_service, ins_result, ins_pc>>

embed_vars == <<embed_insights, embed_result, embed_pc>>

sec_vars == <<sec_commits, sec_result, sec_pc>>

vars == <<est_vars, daily_vars, streak_vars, month_vars, run_vars, ins_vars, embed_vars,
          sec_vars>>

(***************************************************************************)
(* Generic helpers                                                         *)
(***************************************************************************)

Range(s) == {s[i] : i \in DOMAIN s}

SeqsUpTo(S, n) == UNION {[1..k -> S] : k \in 0..n}

Abs(x) == IF x < 0 THEN -x ELSE x

\* Python's round(): the nearest integer to num/den (den > 0), a tie going
\* to the even neighbour.
RoundHalfEven(num, den) ==
    LET q == num \div den
        r == num % den
    IN  IF 2 * r < den THEN q
        ELSE IF 2 * r > den THEN q + 1
        ELSE IF q % 2 = 0 THEN q ELSE q + 1

(***************************************************************************)
(* utils/github_api.py: _estimate_time_spent                               *)
(***************************************************************************)

\* Bounds of the estimator's inputs.
MaxEstCommits == 3
LocalMinutes == {0, 60, 120, 180, 181, 300}
UtcOffsets == {0, 300, -60}

Timestamps == [local : LocalMinutes, offset : UtcOffsets]

\* datetime.fromisoformat(s): the instant a timestamp string denotes, in
\* minutes UTC.
fromisoformat(t) == t.local - t.offset

\* The order of two isoformat() strings "YYYY-MM-DDTHH:MM:SS+HH:MM" under
\* Python's string comparison: the zero-padded wall-clock part first, then
\* the sign of the offset ('+' sorts before '-'), then its digits.
OffsetKey(t) == IF t.offset >= 0 THEN t.offset ELSE 24 * 60 + Abs(t.offset)

StrLeq(a, b) ==
    \/ a.local < b.local
    \/ a.local = b.local /\ OffsetKey(a) <= OffsetKey(b)

\* sorted(commits, key=lambda x: x['timestamp']) is a stable sort on the
\* timestamp string: x goes after every element whose key is <= its own.
RECURSIVE InsertByKey(_, _)
InsertByKey(x, s) ==
    IF s = <<>> THEN <<x>>
    ELSE IF StrLeq(Head(s).timestamp, x.timestamp)
         THEN <<Head(s)>> \o InsertByKey(x, Tail(s))
         ELSE <<x>> \o s

RECURSIVE SortLoop(_, _)
SortLoop(commits, acc) ==
    IF commits = <<>> THEN acc
    ELSE SortLoop(Tail(commits), InsertByKey(Head(commits), acc))

unsorted_commits(commits) == commits

sorted_commits(commits) == SortLoop(commits, <<>>)

MAX_GAP_HOURS == 2

\* gap = (curr_time - prev_time).total_seconds() / 3600, kept in minutes.
gap(s, i) == fromisoformat(s[i].timestamp) - fromisoformat(s[i - 1].timestamp)

gap_never_counted(s, i) == FALSE

gap_counted(s, i) == gap(s, i) <= MAX_GAP_HOURS * 60

\* for i in range(1, len(sorted_commits)): total_hours += gap when counted.
RECURSIVE total_hours(_, _)
total_hours(s, i) ==
    IF i > Len(s) THEN 0
    ELSE (IF gap_counted(s, i) THEN gap(s, i) ELSE 0) + total_hours(s, i + 1)

\* The returned value in hundredths of an hour: round(total_hours + 0.5, 2).
_estimate_time_spent(commits) ==
    IF commits = <<>> THEN 0
    ELSE LET s == sorted_commits(commits)
         IN  RoundHalfEven((total_hours(s, 2) + 30) * 100, 60)

(***************************************************************************)
(* utils/github_api.py: _detect_languages_from_commits                     *)
(***************************************************************************)

\* A mapping (dict, defaultdict) is a function on its keys.
EmptyMap == <<>>

Get(m, k, default) == IF k \in DOMAIN m THEN m[k] ELSE default

\* m[k] += n on a defaultdict(int).
Incr(m, k, n) ==
    IF k \in DOMAIN m THEN [m EXCEPT ![k] = @ + n] ELSE m @@ (k :> n)

RECURSIVE SumOver(_, _)
SumOver(m, keys) ==
    IF keys = {} THEN 0
    ELSE LET k == CHOOSE x \in keys : TRUE
         IN  m[k] + SumOver(m, keys \ {k})

\* sum(m.values())
SumValues(m) == SumOver(m, DOMAIN m)

\* language_map, in the order the dict literal lists it.
language_map == <<
    <<".py", "Python">>, <<".java", "Java">>, <<".js", "JavaScript">>,
    <<".ts", "TypeScript">>, <<".jsx", "JavaScript">>, <<".tsx", "TypeScript">>,
    <<".cpp", "C++">>, <<".c", "C">>, <<".h", "C/C++">>, <<".hpp", "C++">>,
    <<".cs", "C#">>, <<".go", "Go">>, <<".rs", "Rust">>, <<".rb", "Ruby">>,
    <<".php", "PHP">>, <<".swift", "Swift">>, <<".kt", "Kotlin">>,
    <<".scala", "Scala">>, <<".r", "R">>, <<".m", "Objective-C">>,
    <<".sh", "Shell">>, <<".bash", "Bash">>, <<".ps1", "PowerShell">>,
    <<".html", "HTML">>, <<".css", "CSS">>, <<".scss", "SCSS">>,
    <<".sass", "Sass">>, <<".less", "Less">>, <<".xml", "XML">>,
    <<".json", "JSON">>, <<".yml", "YAML">>, <<".yaml", "YAML">>,
    <<".sql", "SQL">>, <<".md", "Markdown">>, <<".tex", "LaTeX">> >>

\* A file name is its stem and its suffix: the text from the last "." on,
\* as written ("" when the name has no dot).  str.lower() on the suffixes
\* the model uses:
lower(suffix) ==
    CASE suffix = ".PY" -> ".py"
      [] suffix = ".Js" -> ".js"
      [] suffix = ".TXT" -> ".txt"
      [] OTHER -> suffix

filename_as_written(file) == file.suffix

\* filename = file.filename.lower()
filename(file) == lower(file.suffix)

\* filename.endswith(ext): every key of language_map is a "." followed by
\* characters other than ".", so a name ends with it exactly when its
\* suffix is that key.
endswith(name, ext) == name = ext

\* for ext, lang in language_map.items(): if filename.endswith(ext):
\*     commit_languages.add(lang); break
RECURSIVE first_match(_, _)
first_match(name, k) ==
    IF k > Len(language_map) THEN {}
    ELSE IF endswith(name, language_map[k][1]) THEN {language_map[k][2]}
    ELSE first_match(name, k + 1)

\* The set commit_languages of one commit: for file in commit.files: ...
commit_languages_of(files) ==
    UNION {first_match(filename(files[j]), 1) : j \in DOMAIN files}

\* for lang in commit_languages: commits_per_language[lang].add(sha)
add_commit(commits_per_language, langs, sha) ==
    [l \in DOMAIN commits_per_language \cup langs |->
        Get(commits_per_language, l, {}) \cup (IF l \in langs THEN {sha} ELSE {})]

\* The loop over repo_commits.  repo.get_commit(sha) / commit.files either
\* give the files the commit changed, raise GithubException (the commit is
\* skipped) or raise another exception (the outer handler returns {}).
RECURSIVE detect_loop(_, _, _)
detect_loop(repo_commits, i, commits_per_language) ==
    IF i > Len(repo_commits)
    THEN [failed |-> FALSE, commits_per_language |-> commits_per_language]
    ELSE LET commit_data == repo_commits[i]
         IN  CASE commit_data.fetch_error = "GithubException" ->
                    detect_loop(repo_commits, i + 1, commits_per_language)
               [] commit_data.fetch_error = "Exception" ->
                    [failed |-> TRUE, commits_per_language |-> commits_per_language]
               [] OTHER ->
                    detect_loop(repo_commits, i + 1,
                        add_commit(commits_per_language,
                                   commit_languages_of(commit_data.files),
                                   commit_data.sha))

partial_detection(repo_commits) ==
    LET r == detect_loop(repo_commits, 1, EmptyMap)
    IN  [l \in DOMAIN r.commits_per_language |->
            Cardinality(r.commits_per_language[l])]

\* languages[lang] = len(commit_shas)
_detect_languages_from_commits(repo_commits) ==
    LET r == detect_loop(repo_commits, 1, EmptyMap)
    IN  IF r.failed THEN EmptyMap
        ELSE [l \in DOMAIN r.commits_per_language |->
                 Cardinality(r.commits_per_language[l])]

(***************************************************************************)
(* utils/github_api.py: get_daily_commits                                  *)
(***************************************************************************)

\* repo.language is None for a repository that declares no language.
None == "<None>"

\* commit.sha[:7]: a sha is <<its first 7 characters, the rest>>.
short_sha(sha) == sha[1]

\* commit.commit.author.date.hour
hour(date) == (date.local \div 60) % 24

\* commit_data (message and url are carried along unread and are left
\* out), with what repo.get_commit(commit_data['sha']) will answer: the
\* files of the commit, or the error it raises.
commit_data_of(commit) ==
    [sha |-> short_sha(commit.sha), timestamp |-> commit.date,
     files |-> commit.files, fetch_error |-> commit.fetch_error]

stored_commit(cd) == [sha |-> cd.sha, timestamp |-> cd.timestamp]

\* The inner loop (lines 74-89) over the commits the listing yields.
RECURSIVE list_commits(_, _, _, _)
list_commits(repo, i, repo_commits, commits_data) ==
    IF i > Len(repo.commits)
    THEN [repo_commits |-> repo_commits, commits_data |-> commits_data]
    ELSE LET c == commit_data_of(repo.commits[i])
         IN  list_commits(repo, i + 1, Append(repo_commits, c),
                [commits_data EXCEPT
                    !.commit_messages =
                        Append(@, [repo |-> repo.name, sha |-> c.sha,
                                   timestamp |-> c.timestamp]),
                    !.commits_by_hour = Incr(@, hour(repo.commits[i].date), 1)])

\* language = repo.language or 'Unknown'
language_or_unknown(repo) == IF repo.language = None THEN "Unknown" ELSE repo.language

fallback_one(language, repo_commits) == language :> 1

\* commit_languages = {language: len(repo_commits)}
fallback_languages(language, repo_commits) == language :> Len(repo_commits)

\* for lang, count in commit_languages.items():
\*     commits_data['languages'][lang] += count
RECURSIVE add_languages(_, _, _)
add_languages(languages, commit_languages, keys) ==
    IF keys = {} THEN languages
    ELSE LET k == CHOOSE x \in keys : TRUE
         IN  add_languages(Incr(languages, k, commit_languages[k]),
                           commit_languages, keys \ {k})

add_no_languages(languages, commit_languages) == languages

update_languages(languages, commit_languages) ==
    add_languages(languages, commit_languages, DOMAIN commit_languages)

count_one(repo_commits) == 1

\* len(repo_commits), added to total_commits
commits_counted(repo_commits) == Len(repo_commits)

\* if repo_commits: ... (lines 91-114)
store_repo(repo, repo_commits, commits_data) ==
    LET detected == _detect_languages_from_commits(repo_commits)
        language == language_or_unknown(repo)
        commit_languages ==
            IF detected = EmptyMap
            THEN fallback_languages(language, repo_commits)
            ELSE detected
    IN  [commits_data EXCEPT
            !.languages =
                IF detected = EmptyMap
                THEN Incr(update_languages(@, detected), language, Len(repo_commits))
                ELSE update_languages(@, detected),
            !.repositories = Append(@,
                [name |-> repo.name,
                 commits_count |-> Len(repo_commits),
                 language |-> language,
                 languages_used |-> commit_languages,
                 commits |-> [j \in DOMAIN repo_commits |-> stored_commit(repo_commits[j])]]),
            !.total_commits = @ + commits_counted(repo_commits)]

\* commits_data as initialised at lines 47-58 (date and time_range are
\* copied from the arguments and never read again).
new_commits_data ==
    [total_commits |-> 0,
     repositories |-> <<>>,
     languages |-> EmptyMap,
     commits_by_hour |-> EmptyMap,
     commit_messages |-> <<>>,
     estimated_hours |-> 0]

lose_gathered(repo, commits_data) ==
    LET listed == list_commits(repo, 1, <<>>, commits_data)
    IN  IF repo.list_error = "GithubException" THEN new_commits_data
        ELSE IF listed.repo_commits = <<>> THEN listed.commits_data
        ELSE store_repo(repo, listed.repo_commits, listed.commits_data)

store_even_empty(repo, commits_data) ==
    LET listed == list_commits(repo, 1, <<>>, commits_data)
    IN  IF repo.list_error = "GithubException" THEN listed.commits_data
        ELSE store_repo(repo, listed.repo_commits, listed.commits_data)

\* One iteration of `for repo in repos` (lines 64-119).  A GithubException
\* raised while the commits are listed leaves the loop body at once; what
\* the inner loop had already appended to commits_data stays.
process_repo(repo, commits_data) ==
    LET listed == list_commits(repo, 1, <<>>, commits_data)
    IN  IF repo.list_error = "GithubException" THEN listed.commits_data
        ELSE IF listed.repo_commits = <<>> THEN listed.commits_data
        ELSE store_repo(repo, listed.repo_commits, listed.commits_data)

RECURSIVE repos_loop(_, _, _)
repos_loop(repos, i, commits_data) ==
    IF i > Len(repos) THEN commits_data
    ELSE repos_loop(repos, i + 1, process_repo(repos[i], commits_data))

swallow_enumeration_error(source) ==
    [raised |-> FALSE, commits_data |-> new_commits_data]

\* The whole function: the record it returns, or the GithubException it
\* re-raises when the repositories cannot be enumerated.
get_daily_commits(source) ==
    IF source.enum_error = "GithubException"
    THEN [raised |-> TRUE, commits_data |-> new_commits_data]
    ELSE LET looped == repos_loop(source.repos, 1, new_commits_data)
         IN  [raised |-> FALSE,
              commits_data |->
                  [looped EXCEPT
                      !.estimated_hours = _estimate_time_spent(looped.commit_messages)]]

\* ---- the inputs of get_daily_commits ----

\* The commits of one day over all repositories.
MaxDayCommits == 3

UTC(minutes) == [local |-> minutes, offset |-> 0]

File(stem, suffix) == [stem |-> stem, suffix |-> suffix]

\* The commits a listing can yield: the sha, the author date, the files the
\* commit changed and how the later request for them ends.  The first two
\* share their first 7 characters.
DayCommits == {
    [sha |-> <<"a1b2c3d", "0f">>, date |-> UTC(9 * 60),
     files |-> <<File("a", ".py"), File("b", ".py")>>, fetch_error |-> "none"],
    [sha |-> <<"a1b2c3d", "7e">>, date |-> UTC(10 * 60),
     files |-> <<File("SETUP", ".PY"), File("x", ".js")>>, fetch_error |-> "none"],
    [sha |-> <<"e4f5a6b", "22">>, date |-> UTC(10 * 60 + 30),
     files |-> <<File("notes", ".txt")>>, fetch_error |-> "none"],
    [sha |-> <<"9d8c7b6", "51">>, date |-> UTC(13 * 60),
     files |-> <<File("lib", ".py")>>, fetch_error |-> "GithubException"],
    [sha |-> <<"0a0b0c0", "c4">>, date |-> UTC(9 * 60),
     files |-> <<File("app", ".js")>>, fetch_error |-> "Exception"],
    [sha |-> <<"c0ffee1", "3b">>, date |-> UTC(13 * 60 + 1),
     files |-> <<File("main", ".py"), File("Makefile", "")>>, fetch_error |-> "none"] }

\* The repositories of the user, in the order get_repos() yields them;
\* names are unique within one owner.
RepoCatalogue == <<
    [name |-> "insightify", language |-> "Python"],
    [name |-> "dotfiles", language |-> None],
    [name |-> "blog", language |-> "Go"] >>

\* The commits `flat` dealt to n repositories: repository i gets the
\* commits after cut i-1 up to cut i.
Deal(flat, cuts, errors) ==
    [i \in DOMAIN cuts |->
        [name |-> RepoCatalogue[i].name,
         language |-> RepoCatalogue[i].language,
         commits |-> SubSeq(flat, (IF i = 1 THEN 0 ELSE cuts[i - 1]) + 1, cuts[i]),
         list_error |-> errors[i]]]

(***************************************************************************)
(* scripts/monthly_report.py: dates                                        *)
(***************************************************************************)

\* A date string "YYYY-MM-DD" is the triple <<year, month, day>> of its
\* zero-padded fields, so that string order is the order of the triples;
\* the empty string (a record without 'date') is <<0, 0, 0>>, which sorts
\* first and does not parse.
NoDate == <<0, 0, 0>>

\* "2024-01-DD"
Jan(day) == <<2024, 1, day>>

str_less(a, b) ==
    \/ a[1] < b[1]
    \/ a[1] = b[1] /\ a[2] < b[2]
    \/ a[1] = b[1] /\ a[2] = b[2] /\ a[3] < b[3]

is_leap(y) == y % 4 = 0 /\ (y % 100 # 0 \/ y % 400 = 0)

days_in_month(y, m) ==
    CASE m \in {1, 3, 5, 7, 8, 10, 12} -> 31
      [] m \in {4, 6, 9, 11} -> 30
      [] OTHER -> IF is_leap(y) THEN 29 ELSE 28

\* datetime.strptime(s, '%Y-%m-%d') succeeds
strptime_ok(s) ==
    /\ s[1] >= 1
    /\ s[2] \in 1..12
    /\ s[3] >= 1
    /\ s[3] <= days_in_month(s[1], s[2])

RECURSIVE days_before_month(_, _)
days_before_month(y, m) ==
    IF m <= 1 THEN 0 ELSE days_in_month(y, m - 1) + days_before_month(y, m - 1)

days_before_year(y) ==
    (y - 1) * 365 + (y - 1) \div 4 - (y - 1) \div 100 + (y - 1) \div 400

\* The parsed date as a day number (date.toordinal(): 0001-01-01 is 1).
strptime(s) == days_before_year(s[1]) + days_before_month(s[1], s[2]) + s[3]

\* The Monday of ISO week 1 of year y.
isoweek1monday(y) ==
    LET firstday == days_before_year(y) + 1
        firstweekday == (firstday + 6) % 7
        week1monday == firstday - firstweekday
    IN  IF firstweekday > 3 THEN week1monday + 7 ELSE week1monday

\* The week counted in sevens from 1 January.
week_of_year(s) == (strptime(s) - strptime(<<s[1], 1, 1>>)) \div 7 + 1

\* date_obj.isocalendar()[1]
isoweek(s) ==
    LET today == strptime(s)
        week == (today - isoweek1monday(s[1])) \div 7
    IN  IF week < 0
        THEN (today - isoweek1monday(s[1] - 1)) \div 7 + 1
        ELSE IF week >= 52 /\ today >= isoweek1monday(s[1] + 1) THEN 1
        ELSE week + 1

\* week_label = f"Week {week_num}"
week_label(week_num) == <<"Week", week_num>>

(***************************************************************************)
(* scripts/monthly_report.py: calculate_longest_streak                     *)
(***************************************************************************)

\* sorted(commits_by_day.keys())
RECURSIVE sorted_dates(_)
sorted_dates(keys) ==
    IF keys = {} THEN <<>>
    ELSE LET first == CHOOSE k \in keys : \A o \in keys : o = k \/ str_less(k, o)
         IN  <<first>> \o sorted_dates(keys \ {first})

running_total(a, b) == a + b

Max(a, b) == IF a >= b THEN a ELSE b

always_extends(prev_date, curr_date) == TRUE

later_day(prev_date, curr_date) == strptime(curr_date) - strptime(prev_date) >= 1

\* (curr_date - prev_date).days == 1
consecutive_day(prev_date, curr_date) == strptime(curr_date) - strptime(prev_date) = 1

\* The loop over enumerate(sorted_dates); position i here is i - 1 there.
\* strptime raising ValueError ends the call.
RECURSIVE streak_loop(_, _, _, _, _)
streak_loop(commits_by_day, dates, i, current_streak, longest_streak) ==
    IF i > Len(dates) THEN [raised |-> FALSE, value |-> longest_streak]
    ELSE IF commits_by_day[dates[i]] > 0
    THEN IF i = 1
         THEN streak_loop(commits_by_day, dates, i + 1, 1, Max(longest_streak, 1))
         ELSE IF ~strptime_ok(dates[i - 1]) \/ ~strptime_ok(dates[i])
         THEN [raised |-> TRUE, value |-> 0]
         ELSE LET streak == IF consecutive_day(dates[i - 1], dates[i])
                            THEN current_streak + 1 ELSE 1
              IN  streak_loop(commits_by_day, dates, i + 1, streak,
                              Max(longest_streak, streak))
    ELSE streak_loop(commits_by_day, dates, i + 1, 0, longest_streak)

calculate_longest_streak(commits_by_day) ==
    IF DOMAIN commits_by_day = {} THEN [raised |-> FALSE, value |-> 0]
    ELSE streak_loop(commits_by_day, sorted_dates(DOMAIN commits_by_day), 1, 0, 0)

(***************************************************************************)
(* scripts/monthly_report.py: aggregate_monthly_data                       *)
(***************************************************************************)

\* An ordered mapping (the dict monthly['repositories'], the 'repositories'
\* object of a day's JSON file) is the sequence of its items in insertion
\* order.
index_of(items, name) ==
    IF \E i \in DOMAIN items : items[i].name = name
    THEN CHOOSE i \in DOMAIN items : items[i].name = name
    ELSE 0

overwrite_repo(items, name, count) ==
    LET i == index_of(items, name)
    IN  IF i = 0 THEN Append(items, [name |-> name, commits_count |-> count])
        ELSE [items EXCEPT ![i].commits_count = count]

\* monthly['repositories'][repo] += info.get('commits_count', 0)
add_repo(items, name, count) ==
    LET i == index_of(items, name)
    IN  IF i = 0 THEN Append(items, [name |-> name, commits_count |-> count])
        ELSE [items EXCEPT ![i].commits_count = @ + count]

RECURSIVE add_repos(_, _, _)
add_repos(items, day_repos, j) ==
    IF j > Len(day_repos) THEN items
    ELSE add_repos(add_repo(items, day_repos[j].name, day_repos[j].commits_count),
                   day_repos, j + 1)

\* One iteration of `for day_data in daily_data` (lines 83-116).
aggregate_day(monthly, day_data) ==
    LET date == day_data.date
        commits == day_data.total_commits
    IN  [monthly EXCEPT
            !.active_days = IF commits > 0 THEN @ + 1 ELSE @,
            !.total_commits = @ + commits,
            !.total_hours = @ + day_data.estimated_hours,
            !.languages = update_languages(@, day_data.languages),
            !.repositories = add_repos(@, day_data.repositories, 1),
            !.commits_by_day = [d \in DOMAIN @ \cup {date} |->
                                    IF d = date THEN commits ELSE @[d]],
            !.commits_by_week = IF strptime_ok(date)
                                THEN Incr(@, week_label(isoweek(date)), commits)
                                ELSE @,
            !.daily_breakdown = Append(@, [date |-> date, commits |-> commits,
                                           hours |-> day_data.estimated_hours])]

RECURSIVE days_loop(_, _, _)
days_loop(daily_data, i, monthly) ==
    IF i > Len(daily_data) THEN monthly
    ELSE days_loop(daily_data, i + 1, aggregate_day(monthly, daily_data[i]))

\* sorted(items, key=lambda x: x[1], reverse=True): stable, so items with
\* equal counts keep their order.
RECURSIVE insert_desc(_, _)
insert_desc(x, s) ==
    IF s = <<>> THEN <<x>>
    ELSE IF Head(s).commits_count >= x.commits_count
         THEN <<Head(s)>> \o insert_desc(x, Tail(s))
         ELSE <<x>> \o s

RECURSIVE sorted_desc(_, _)
sorted_desc(items, acc) ==
    IF items = <<>> THEN acc
    ELSE sorted_desc(Tail(items), insert_desc(Head(items), acc))

TOP_REPOSITORIES == 10

in_insertion_order(items) ==
    [i \in 1..(IF Len(items) < TOP_REPOSITORIES THEN Len(items) ELSE TOP_REPOSITORIES) |->
        items[i].name]

\* [repo for repo, _ in sorted(...)[:10]]
top_repositories(items) ==
    LET ranked == sorted_desc(items, <<>>)
    IN  [i \in 1..(IF Len(ranked) < TOP_REPOSITORIES THEN Len(ranked) ELSE TOP_REPOSITORIES) |->
            ranked[i].name]

per_active_day(total_commits, active_days, days) ==
    IF days = 0 \/ active_days = 0 THEN 0
    ELSE RoundHalfEven(total_commits * 100, active_days)

\* round(total_commits / len(daily_data) if daily_data else 0, 2), in
\* hundredths.
avg_commits_per_day(total_commits, active_days, days) ==
    IF days = 0 THEN 0 ELSE RoundHalfEven(total_commits * 100, days)

monthly_with_leftover ==
    [total_commits |-> 1,
     total_hours |-> 0,
     active_days |-> 1,
     languages |-> EmptyMap,
     repositories |-> <<>>,
     commits_by_day |-> EmptyMap,
     commits_by_week |-> EmptyMap,
     daily_breakdown |-> <<>>,
     avg_commits_per_day |-> 0,
     total_repos |-> 0,
     top_repositories |-> <<>>,
     longest_streak |-> 0]

\* monthly as initialised at lines 72-81, with the fields added later unset.
new_monthly ==
    [total_commits |-> 0,
     total_hours |-> 0,
     active_days |-> 0,
     languages |-> EmptyMap,
     repositories |-> <<>>,
     commits_by_day |-> EmptyMap,
     commits_by_week |-> EmptyMap,
     daily_breakdown |-> <<>>,
     avg_commits_per_day |-> 0,
     total_repos |-> 0,
     top_repositories |-> <<>>,
     longest_streak |-> 0]

\* The whole function: the record it returns, or the ValueError that
\* calculate_longest_streak lets out.
aggregate_monthly_data(daily_data) ==
    LET looped == days_loop(daily_data, 1, new_monthly)
        streak == calculate_longest_streak(looped.commits_by_day)
    IN  [raised |-> streak.raised,
         monthly |->
            [looped EXCEPT
                !.avg_commits_per_day =
                    avg_commits_per_day(looped.total_commits, looped.active_days,
                                        Len(daily_data)),
                !.total_repos = Len(looped.repositories),
                !.top_repositories = top_repositories(looped.repositories),
                !.longest_streak = streak.value]]

\* ---- the inputs of calculate_longest_streak ----

\* The largest commit count of one day.
MaxDayCount == 1

\* Date strings around a year's end, the start of a month and a leap day,
\* and two strings that do not parse: '' and "2024-13-01".
StreakDates == {
    <<2023, 12, 31>>, <<2024, 1, 1>>, <<2024, 1, 2>>, <<2024, 1, 3>>, <<2024, 1, 4>>,
    <<2024, 2, 29>>, <<2024, 3, 1>>, NoDate, <<2024, 13, 1>>}

\* ---- the inputs of aggregate_monthly_data ----

\* The number of daily records of a month.
MaxDays == 3

MonthDates == {<<2024, 1, 1>>, <<2024, 1, 2>>, <<2024, 1, 3>>, NoDate}

Repo(name, count) == [name |-> name, commits_count |-> count]

\* What a day's file can hold beside its date.
DayShapes == {
    [total_commits |-> 0, estimated_hours |-> 0,
     languages |-> EmptyMap, repositories |-> <<>>],
    [total_commits |-> 3, estimated_hours |-> 152,
     languages |-> ("Python" :> 3), repositories |-> <<Repo("insightify", 3)>>],
    [total_commits |-> 3, estimated_hours |-> 50,
     languages |-> ("Unknown" :> 3), repositories |-> <<Repo("dotfiles", 3)>>],
    [total_commits |-> 5, estimated_hours |-> 250,
     languages |-> ("JavaScript" :> 4 @@ "Python" :> 2),
     repositories |-> <<Repo("blog", 2), Repo("insightify", 3)>>],
    [total_commits |-> 5, estimated_hours |-> 52,
     languages |-> ("Go" :> 2 @@ "Python" :> 3),
     repositories |-> <<Repo("insightify", 3), Repo("blog", 2)>>] }

DayRecords ==
    {[date |-> d, total_commits |-> sh.total_commits,
      estimated_hours |-> sh.estimated_hours, languages |-> sh.languages,
      repositories |-> sh.repositories] : d \in MonthDates, sh \in DayShapes}

\* A month of 8 consecutive days with 0 or 1 commit each: the averages
\* k/8 are the ones that fall exactly between two hundredths.
WeekAndADay ==
    {[i \in 1..8 |->
        [date |-> <<2024, 1, i>>, total_commits |-> c[i], estimated_hours |-> 50 * c[i],
         languages |-> IF c[i] = 0 THEN EmptyMap ELSE ("Python" :> c[i]),
         repositories |-> IF c[i] = 0 THEN <<>> ELSE <<Repo("insightify", c[i])>>]] :
     c \in [1..8 -> 0..1]}

\* One day with many repositories, to fill the top list.
MaxManyRepos == 11

ManyRepoNames == <<"r01", "r02", "r03", "r04", "r05", "r06", "r07", "r08",
                   "r09", "r10", "r11", "r12", "r13", "r14">>

RECURSIVE count_sum(_, _)
count_sum(c, n) == IF n = 0 THEN 0 ELSE c[n] + count_sum(c, n - 1)

BusyDays ==
    UNION {{<<[date |-> <<2024, 1, 1>>, total_commits |-> count_sum(c, n),
               estimated_hours |-> 50,
               languages |-> ("Python" :> count_sum(c, n)),
               repositories |-> [i \in 1..n |-> Repo(ManyRepoNames[i], c[i])]]>> :
            c \in [1..n -> 1..2]} : n \in (MaxManyRepos - 2)..MaxManyRepos}

NoStreakResult == [raised |-> FALSE, value |-> 0]

NoMonthResult == [raised |-> FALSE, monthly |-> new_monthly]

\* The value of daily_result before get_daily_commits has returned.
NoDailyResult == [raised |-> FALSE, commits_data |-> new_commits_data]

NoDailySource == [repos |-> <<>>, enum_error |-> "none"]

\* A text is a tuple: what kind of text it is and what it was built from.
NoText == <<>>

AiText == <<"response.text">>

\* The value of ins_result before a call has returned.
NoInsightsResult == [raised |-> FALSE, text |-> NoText, requested |-> FALSE]

(***************************************************************************)
(* Specifications: one per function.  The initial states draw the          *)
(* function's arguments (and the answers of the GitHub API) from the       *)
(* bounded sets above; the variables of the other functions stay idle.     *)
(***************************************************************************)

EstInit ==
    /\ est_commits \in SeqsUpTo([timestamp : Timestamps], MaxEstCommits)
    /\ est_result = 0
    /\ est_pc = "call"
    /\ daily_repos = NoDailySource
    /\ daily_result = NoDailyResult
    /\ daily_pc = "idle"
    /\ streak_days = EmptyMap
    /\ streak_result = NoStreakResult
    /\ streak_pc = "idle"
    /\ month_data = <<>>
    /\ month_result = NoMonthResult
    /\ month_pc = "idle"
    /\ script = "none"
    /\ main_pc = "idle"
    /\ exit_status = "running"
    /\ data_dir = <<>>
    /\ record = <<>>
    /\ loaded = <<>>
    /\ insights = <<>>
    /\ chart_paths = <<>>
    /\ journal = <<>>
    /\ config = <<>>
    /\ ins_data = <<>>
    /\ ins_service = "none"
    /\ ins_result = NoInsightsResult
    /\ ins_pc = "idle"
    /\ embed_insights = <<>>
    /\ embed_result = <<>>
    /\ embed_pc = "idle"
    /\ sec_commits = <<>>
    /\ sec_result = 0
    /\ sec_pc = "idle"

EstimateTimeSpent ==
    /\ est_pc = "call"
    /\ est_result' = _estimate_time_spent(est_commits)
    /\ est_pc' = "return"
    /\ UNCHANGED <<est_commits, daily_vars, streak_vars, month_vars, run_vars, ins_vars, embed_vars, sec_vars>>

EstNext == EstimateTimeSpent

SpecEstimate == EstInit /\ [][EstNext]_vars

DailyInit ==
    /\ \E flat \in SeqsUpTo(DayCommits, MaxDayCommits),
          n \in 0..Len(RepoCatalogue),
          e \in {"none", "GithubException"} :
          \E cuts \in [1..n -> 0..Len(flat)],
             errors \in [1..n -> {"none", "GithubException"}] :
             /\ \A i \in 1..n : i > 1 => cuts[i - 1] <= cuts[i]
             /\ n > 0 => cuts[n] = Len(flat)
             /\ n = 0 => flat = <<>>
             /\ daily_repos = [repos |-> Deal(flat, cuts, errors), enum_error |-> e]
    /\ daily_result = NoDailyResult
    /\ daily_pc = "call"
    /\ est_commits = <<>>
    /\ est_result = 0
    /\ est_pc = "idle"
    /\ streak_days = EmptyMap
    /\ streak_result = NoStreakResult
    /\ streak_pc = "idle"
    /\ month_data = <<>>
    /\ month_result = NoMonthResult
    /\ month_pc = "idle"
    /\ script = "none"
    /\ main_pc = "idle"
    /\ exit_status = "running"
    /\ data_dir = <<>>
    /\ record = <<>>
    /\ loaded = <<>>
    /\ insights = <<>>
    /\ chart_paths = <<>>
    /\ journal = <<>>
    /\ config = <<>>
    /\ ins_data = <<>>
    /\ ins_service = "none"
    /\ ins_result = NoInsightsResult
    /\ ins_pc = "idle"
    /\ embed_insights = <<>>
    /\ embed_result = <<>>
    /\ embed_pc = "idle"
    /\ sec_commits = <<>>
    /\ sec_result = 0
    /\ sec_pc = "idle"

GetDailyCommits ==
    /\ daily_pc = "call"
    /\ daily_result' = get_daily_commits(daily_repos)
    /\ daily_pc' = "return"
    /\ UNCHANGED <<daily_repos, est_vars, streak_vars, month_vars, run_vars, ins_vars, embed_vars, sec_vars>>

DailyNext == GetDailyCommits

SpecDaily == DailyInit /\ [][DailyNext]_vars

StreakInit ==
    /\ \E keys \in SUBSET StreakDates :
          streak_days \in [keys -> 0..MaxDayCount]
    /\ streak_result = NoStreakResult
    /\ streak_pc = "call"
    /\ est_commits = <<>>
    /\ est_result = 0
    /\ est_pc = "idle"
    /\ daily_repos = NoDailySource
    /\ daily_result = NoDailyResult
    /\ daily_pc = "idle"
    /\ month_data = <<>>
    /\ month_result = NoMonthResult
    /\ month_pc = "idle"
    /\ script = "none"
    /\ main_pc = "idle"
    /\ exit_status = "running"
    /\ data_dir = <<>>
    /\ record = <<>>
    /\ loaded = <<>>
    /\ insights = <<>>
    /\ chart_paths = <<>>
    /\ journal = <<>>
    /\ config = <<>>
    /\ ins_data = <<>>
    /\ ins_service = "none"
    /\ ins_result = NoInsightsResult
    /\ ins_pc = "idle"
    /\ embed_insights = <<>>
    /\ embed_result = <<>>
    /\ embed_pc = "idle"
    /\ sec_commits = <<>>
    /\ sec_result = 0
    /\ sec_pc = "idle"

CalculateLongestStreak ==
    /\ streak_pc = "call"
    /\ streak_result' = calculate_longest_streak(streak_days)
    /\ streak_pc' = "return"
    /\ UNCHANGED <<streak_days, est_vars, daily_vars, month_vars, run_vars, ins_vars, embed_vars, sec_vars>>

StreakNext == CalculateLongestStreak

SpecStreak == StreakInit /\ [][StreakNext]_vars

MonthInit ==
    /\ month_data \in SeqsUpTo(DayRecords, MaxDays) \cup WeekAndADay \cup BusyDays
    /\ month_result = NoMonthResult
    /\ month_pc = "call"
    /\ est_commits = <<>>
    /\ est_result = 0
    /\ est_pc = "idle"
    /\ daily_repos = NoDailySource
    /\ daily_result = NoDailyResult
    /\ daily_pc = "idle"
    /\ streak_days = EmptyMap
    /\ streak_result = NoStreakResult
    /\ streak_pc = "idle"
    /\ script = "none"
    /\ main_pc = "idle"
    /\ exit_status = "running"
    /\ data_dir = <<>>
    /\ record = <<>>
    /\ loaded = <<>>
    /\ insights = <<>>
    /\ chart_paths = <<>>
    /\ journal = <<>>
    /\ config = <<>>
    /\ ins_data = <<>>
    /\ ins_service = "none"
    /\ ins_result = NoInsightsResult
    /\ ins_pc = "idle"
    /\ embed_insights = <<>>
    /\ embed_result = <<>>
    /\ embed_pc = "idle"
    /\ sec_commits = <<>>
    /\ sec_result = 0
    /\ sec_pc = "idle"

AggregateMonthlyData ==
    /\ month_pc = "call"
    /\ month_result' = aggregate_monthly_data(month_data)
    /\ month_pc' = "return"
    /\ UNCHANGED <<month_data, est_vars, daily_vars, streak_vars, run_vars, ins_vars, embed_vars, sec_vars>>

MonthNext == AggregateMonthlyData

SpecMonth == MonthInit /\ [][MonthNext]_vars

(***************************************************************************)
(* The files of the data directory: json.dump, open(..., 'w'), json.load   *)
(***************************************************************************)

\* A file is [exists, text]; the text of a JSON file is the sequence of its
\* tokens: <<"{">>, one <<key, value>> per member, <<"}">>.
NoFile == [exists |-> FALSE, text |-> <<>>]

\* The keys of commit_data in the order they are inserted (github_api.py
\* lines 47-58 and 126, daily_progress.py line 125), those among them that
\* the monthly script reads or that main() adds.
commit_data_keys ==
    <<"date", "total_commits", "repositories", "languages", "estimated_hours",
      "ai_insights">>

\* The keys of monthly_data in insertion order (monthly_report.py lines
\* 72-81, 124-140, 348-349, 385-386).
monthly_data_keys ==
    <<"total_commits", "total_hours", "active_days", "languages", "repositories",
      "commits_by_day", "commits_by_week", "daily_breakdown", "avg_commits_per_day",
      "total_repos", "top_repositories", "longest_streak", "month", "month_str",
      "ai_insights", "chart_paths">>

RECURSIVE members(_, _, _)
members(obj, keys, i) ==
    IF i > Len(keys) THEN <<>>
    ELSE (IF keys[i] \in DOMAIN obj THEN << <<keys[i], obj[keys[i]]>> >> ELSE <<>>)
         \o members(obj, keys, i + 1)

\* json.dump(obj, f, indent=2, ensure_ascii=False): the text it writes.
json_dump(obj, keys) == << <<"{">> >> \o members(obj, keys, 1) \o << <<"}">> >>

\* json.load(f): the object of a complete text; JSONDecodeError for a text
\* that stops early, is empty, or goes on after the closing brace.
json_load(text) ==
    LET complete ==
            /\ Len(text) >= 2
            /\ text[1] = <<"{">>
            /\ text[Len(text)] = <<"}">>
            /\ \A i \in 2..(Len(text) - 1) : Len(text[i]) = 2
        keys == {text[i][1] : i \in 2..(Len(text) - 1)}
    IN  IF ~complete THEN [raised |-> TRUE, value |-> <<>>]
        ELSE [raised |-> FALSE,
              value |-> [k \in keys |->
                  text[CHOOSE i \in 2..(Len(text) - 1) :
                          /\ text[i][1] = k
                          /\ \A j \in (i + 1)..(Len(text) - 1) : text[j][1] # k][2]]]

\* How `with open(file, 'w') as f: json.dump(...)` can end: the whole text
\* is written; open() raises and the file is as before; the write raises
\* after `upto` tokens; or the process is killed after `upto` tokens.
WriteOutcomes(text) ==
    {[kind |-> "ok", upto |-> Len(text)], [kind |-> "open fails", upto |-> 0]}
    \cup {[kind |-> k, upto |-> n] :
            k \in {"write fails", "interrupted"}, n \in 0..(Len(text) - 1)}

appended(file, text, outcome) ==
    IF outcome.kind = "open fails" THEN file
    ELSE [exists |-> TRUE, text |-> file.text \o SubSeq(text, 1, outcome.upto)]

\* The file after the write: mode 'w' empties it when it is opened.
written(file, text, outcome) ==
    IF outcome.kind = "open fails" THEN file
    ELSE [exists |-> TRUE, text |-> SubSeq(text, 1, outcome.upto)]

(***************************************************************************)
(* utils/gemini_client.py                                                  *)
(***************************************************************************)

left_without_text == <<>>

\* insights = "Insights generation failed."
Placeholder == <<"Insights generation failed.">>

\* What self.model.generate_content(...) can do: answer with a text, answer
\* with no text (blocked), raise.
ServiceOutcomes == {"text", "empty", "raises"}

\* data.get('previous_days', [])
previous_days(data) ==
    IF "previous_days" \in DOMAIN data THEN data.previous_days ELSE <<>>

\* _build_daily_prompt: avg_commits is assigned only under `if
\* previous_days:` (line 154) and read by the f-string of the prompt in any
\* case (lines 192, 208); without previous days that read raises
\* UnboundLocalError.
_build_daily_prompt(data) ==
    [raised |-> previous_days(data) = <<>>, prompt |-> <<"daily prompt", data.total_commits>>]

_generate_fallback_insights(data) ==
    IF data.total_commits = 0 THEN <<"No commits today">>
    ELSE <<"Pattern Detection", data.total_commits, data.estimated_hours>>

\* generate_daily_insights: the prompt is built outside the try block, the
\* service is asked inside it.
generate_daily_insights(commit_data, service) ==
    IF _build_daily_prompt(commit_data).raised
    THEN [raised |-> TRUE, text |-> NoText, requested |-> FALSE]
    ELSE [raised |-> FALSE,
          text |-> IF service = "text" THEN AiText
                   ELSE _generate_fallback_insights(commit_data),
          requested |-> TRUE]

_generate_monthly_fallback(data) ==
    <<"Learning Progress Check", data.active_days, data.total_commits, data.longest_streak>>

\* generate_monthly_insights: _build_monthly_prompt reads every field with
\* .get and a default.
generate_monthly_insights(monthly_data, service) ==
    [raised |-> FALSE,
     text |-> IF service = "text" THEN AiText
              ELSE _generate_monthly_fallback(monthly_data),
     requested |-> TRUE]

\* How a delivery can end: send_... returns True, returns False (the
\* request failed), or raises.
SendOutcomes == {"sent", "refused", "raises"}

(***************************************************************************)
(* scripts/monthly_report.py: load_daily_data                              *)
(***************************************************************************)

\* day_data as aggregate_monthly_data reads it: day_data.get('date', '')
\* and the other .get defaults.
with_defaults(value) ==
    [date |-> IF "date" \in DOMAIN value THEN value.date ELSE NoDate,
     total_commits |-> IF "total_commits" \in DOMAIN value THEN value.total_commits ELSE 0,
     estimated_hours |->
        IF "estimated_hours" \in DOMAIN value THEN value.estimated_hours ELSE 0,
     languages |-> IF "languages" \in DOMAIN value THEN value.languages ELSE EmptyMap,
     repositories |-> IF "repositories" \in DOMAIN value THEN value.repositories ELSE <<>>]

\* for day in range(1, num_days + 1): a file that exists and parses is
\* appended, one that does not parse is skipped with a warning.
RECURSIVE load_daily_data(_, _, _)
load_daily_data(dir, days, i) ==
    IF i > Len(days) THEN <<>>
    ELSE LET file == dir[days[i]]
             parsed == json_load(file.text)
         IN  (IF file.exists /\ ~parsed.raised THEN <<with_defaults(parsed.value)>> ELSE <<>>)
             \o load_daily_data(dir, days, i + 1)

(***************************************************************************)
(* scripts/daily_progress.py and scripts/monthly_report.py: what a run is  *)
(* given                                                                   *)
(***************************************************************************)

\* The day of the daily run and the day before it; the data directory
\* holds their two files and the monthly report.
Yesterday == "2024-01-01.json"

Today == "2024-01-02.json"

Report == "monthly_report_2024-01.json"

MonthFiles == <<Yesterday, Today>>

\* date.strftime('%Y-%m-%d') of the day of the run
date_str == Jan(2)

\* commit_data: the record of get_daily_commits under its date, with the
\* members of each repository that the monthly script reads.
commit_data_of_day(date, commits_data) ==
    [date |-> date,
     total_commits |-> commits_data.total_commits,
     repositories |-> [i \in DOMAIN commits_data.repositories |->
                          Repo(commits_data.repositories[i].name,
                               commits_data.repositories[i].commits_count)],
     languages |-> commits_data.languages,
     estimated_hours |-> commits_data.estimated_hours]

\* The GitHub accounts of a run: one that cannot be enumerated, one
\* without commits in the window, one with two commits in one repository.
Accounts == {
    [repos |-> <<>>, enum_error |-> "GithubException"],
    [repos |-> <<>>, enum_error |-> "none"],
    [repos |->
        Deal(<<[sha |-> <<"a1b2c3d", "0f">>, date |-> UTC(9 * 60),
                files |-> <<File("a", ".py")>>, fetch_error |-> "none"],
               [sha |-> <<"c0ffee1", "3b">>, date |-> UTC(10 * 60),
                files |-> <<File("main", ".py")>>, fetch_error |-> "none"]>>,
             <<2>>, <<"none">>),
     enum_error |-> "none"] }

\* A day's record as an earlier daily run saved it.
SavedDay(date, commits) ==
    [date |-> date, total_commits |-> commits,
     repositories |-> IF commits = 0 THEN <<>> ELSE <<Repo("insightify", commits)>>,
     languages |-> IF commits = 0 THEN EmptyMap ELSE ("Python" :> commits),
     estimated_hours |-> IF commits = 0 THEN 0 ELSE 50]

\* A record that carries no 'date': not written by the daily script.
UndatedDay ==
    [total_commits |-> 3, repositories |-> <<Repo("insightify", 3)>>,
     languages |-> ("Python" :> 3), estimated_hours |-> 50]

Intact(obj) == [exists |-> TRUE, text |-> json_dump(obj, commit_data_keys)]

Torn(obj, upto) ==
    [exists |-> TRUE, text |-> SubSeq(json_dump(obj, commit_data_keys), 1, upto)]

\* What yesterday's file can be when the run starts.
YesterdayFiles ==
    {NoFile, Intact(SavedDay(Jan(1), 3)), Intact(SavedDay(Jan(1), 0)),
     Torn(SavedDay(Jan(1), 3), 4), Torn(SavedDay(Jan(1), 3), 0), Intact(UndatedDay)}

\* What today's file can be when the run starts: absent, or saved by a run
\* earlier the same day.
TodayFiles == {NoFile, Intact(SavedDay(Jan(2), 0))}

NoJournal == [writes |-> 0, requests |-> 0, sent |-> <<>>]

\* obj[key] = value on a dict
with_member(obj, key, value) ==
    [k \in DOMAIN obj \cup {key} |-> IF k = key THEN value ELSE obj[k]]

\* The process ends: sys.exit(status), the end of main(), an uncaught
\* exception (status 1), or a kill.
Ends(status) ==
    /\ main_pc' = "end"
    /\ exit_status' = status

Continues(step) ==
    /\ main_pc' = step
    /\ UNCHANGED exit_status

Delivery(channel, enabled) ==
    IF enabled
    THEN \E o \in SendOutcomes :
            journal' = [journal EXCEPT
                !.sent = Append(@, [channel |-> channel, insights |-> insights,
                                    outcome |-> o])]
    ELSE UNCHANGED journal

(***************************************************************************)
(* scripts/daily_progress.py: main                                         *)
(***************************************************************************)

RunInit ==
    /\ script = "daily_progress"
    /\ main_pc = "fetch"
    /\ exit_status = "running"
    /\ \E y \in YesterdayFiles, t \in TodayFiles :
          data_dir = (Yesterday :> y @@ Today :> t @@ Report :> NoFile)
    /\ record = <<>>
    /\ loaded = <<>>
    /\ insights = NoText
    /\ chart_paths = <<>>
    /\ journal = NoJournal
    /\ config \in [account : Accounts, discord : BOOLEAN, email : BOOLEAN]
    /\ est_commits = <<>>
    /\ est_result = 0
    /\ est_pc = "idle"
    /\ daily_repos = NoDailySource
    /\ daily_result = NoDailyResult
    /\ daily_pc = "idle"
    /\ streak_days = EmptyMap
    /\ streak_result = NoStreakResult
    /\ streak_pc = "idle"
    /\ month_data = <<>>
    /\ month_result = NoMonthResult
    /\ month_pc = "idle"
    /\ ins_data = <<>>
    /\ ins_service = "none"
    /\ ins_result = NoInsightsResult
    /\ ins_pc = "idle"
    /\ embed_insights = <<>>
    /\ embed_result = <<>>
    /\ embed_pc = "idle"
    /\ sec_commits = <<>>
    /\ sec_result = 0
    /\ sec_pc = "idle"

FetchThenInsights ==
    /\ script = "daily_progress"
    /\ main_pc = "fetch"
    /\ LET fetched == get_daily_commits(config.account)
       IN  IF fetched.raised
           THEN Ends("1") /\ UNCHANGED record
           ELSE /\ Continues("insights")
                /\ record' = commit_data_of_day(date_str, fetched.commits_data)
    /\ UNCHANGED <<script, data_dir, loaded, insights, chart_paths, journal, config>>
    /\ UNCHANGED <<est_vars, daily_vars, streak_vars, month_vars, ins_vars, embed_vars, sec_vars>>

\* Lines 80-98: any exception of get_daily_commits ends the run with
\* sys.exit(1).
FetchGitHubCommits ==
    /\ script = "daily_progress"
    /\ main_pc = "fetch"
    /\ LET fetched == get_daily_commits(config.account)
       IN  IF fetched.raised
           THEN Ends("1") /\ UNCHANGED record
           ELSE /\ Continues("save")
                /\ record' = commit_data_of_day(date_str, fetched.commits_data)
    /\ UNCHANGED <<script, data_dir, loaded, insights, chart_paths, journal, config>>
    /\ UNCHANGED <<est_vars, daily_vars, streak_vars, month_vars, ins_vars, embed_vars, sec_vars>>

\* Lines 100-113: the first write of the day's file.
SaveData ==
    /\ script = "daily_progress"
    /\ main_pc = "save"
    /\ \E o \in WriteOutcomes(json_dump(record, commit_data_keys)) :
        /\ data_dir' = [data_dir EXCEPT
                ![Today] = written(@, json_dump(record, commit_data_keys), o)]
        /\ CASE o.kind = "ok" -> Continues("insights")
             [] o.kind = "interrupted" -> Ends("killed")
             [] OTHER -> Ends("1")
    /\ journal' = [journal EXCEPT !.writes = @ + 1]
    /\ UNCHANGED <<script, record, loaded, insights, chart_paths, config>>
    /\ UNCHANGED <<est_vars, daily_vars, streak_vars, month_vars, ins_vars, embed_vars, sec_vars>>

\* Lines 115-133: one try block around the call of the insight producer,
\* the assignment of ai_insights and the second write; any exception in it
\* leaves the placeholder in insights.
GenerateInsights ==
    /\ script = "daily_progress"
    /\ main_pc = "insights"
    /\ \E service \in ServiceOutcomes :
        LET generated == generate_daily_insights(record, service)
            updated == with_member(record, "ai_insights", generated.text)
        IN  IF generated.raised
            THEN /\ insights' = Placeholder
                 /\ Continues("discord")
                 /\ UNCHANGED <<record, data_dir, journal>>
            ELSE \E o \in WriteOutcomes(json_dump(updated, commit_data_keys)) :
                    /\ record' = updated
                    /\ data_dir' = [data_dir EXCEPT
                            ![Today] = written(@, json_dump(updated, commit_data_keys), o)]
                    /\ journal' = [journal EXCEPT !.writes = @ + 1, !.requests = @ + 1]
                    /\ CASE o.kind = "ok" ->
                                insights' = generated.text /\ Continues("discord")
                         [] o.kind = "interrupted" ->
                                insights' = generated.text /\ Ends("killed")
                         [] OTHER ->
                                insights' = Placeholder /\ Continues("discord")
    /\ UNCHANGED <<script, loaded, chart_paths, config>>
    /\ UNCHANGED <<est_vars, daily_vars, streak_vars, month_vars, ins_vars, embed_vars, sec_vars>>

\* Lines 135-157: the delivery in its own try block, then the summary and
\* the end of main().
SendToDiscord ==
    /\ script = "daily_progress"
    /\ main_pc = "discord"
    /\ Delivery("discord", config.discord)
    /\ Ends("0")
    /\ UNCHANGED <<script, data_dir, record, loaded, insights, chart_paths, config>>
    /\ UNCHANGED <<est_vars, daily_vars, streak_vars, month_vars, ins_vars, embed_vars, sec_vars>>

(***************************************************************************)
(* scripts/monthly_report.py: main                                         *)
(***************************************************************************)

\* The monthly script is started after the daily one has ended, on the
\* data directory as it is.  Lines 333-341: the files of the month are
\* loaded; without any record the run ends with sys.exit(0).
LoadDailyData ==
    /\ script = "daily_progress"
    /\ main_pc = "end"
    /\ script' = "monthly_report"
    /\ loaded' = load_daily_data(data_dir, MonthFiles, 1)
    /\ IF loaded' = <<>>
       THEN main_pc' = "end" /\ exit_status' = "0"
       ELSE main_pc' = "aggregate" /\ exit_status' = "running"
    /\ record' = <<>>
    /\ insights' = NoText
    /\ journal' = NoJournal
    /\ UNCHANGED <<data_dir, chart_paths, config>>
    /\ UNCHANGED <<est_vars, daily_vars, streak_vars, month_vars, ins_vars, embed_vars, sec_vars>>

\* Lines 345-349: aggregate_monthly_data is called outside any try block.
AggregateData ==
    /\ script = "monthly_report"
    /\ main_pc = "aggregate"
    /\ LET aggregated == aggregate_monthly_data(loaded)
       IN  IF aggregated.raised
           THEN Ends("1") /\ UNCHANGED record
           ELSE /\ Continues("charts")
                /\ record' = with_member(with_member(aggregated.monthly,
                                                  "month", <<"January", 2024>>),
                                      "month_str", <<2024, 1>>)
    /\ UNCHANGED <<script, data_dir, loaded, insights, chart_paths, journal, config>>
    /\ UNCHANGED <<est_vars, daily_vars, streak_vars, month_vars, ins_vars, embed_vars, sec_vars>>

\* Lines 356-364: the charts, or no charts when generate_charts raises.
GenerateCharts ==
    /\ script = "monthly_report"
    /\ main_pc = "charts"
    /\ \E drawn \in BOOLEAN :
          chart_paths' = IF drawn THEN <<"daily_commits.png", "languages.png">> ELSE <<>>
    /\ Continues("insights")
    /\ UNCHANGED <<script, data_dir, record, loaded, insights, journal, config>>
    /\ UNCHANGED <<est_vars, daily_vars, streak_vars, month_vars, ins_vars, embed_vars, sec_vars>>

\* Lines 366-381: the client is built and asked inside one try block.
GenerateMonthlyInsights ==
    /\ script = "monthly_report"
    /\ main_pc = "insights"
    /\ \E client \in {"built", "raises"}, service \in ServiceOutcomes :
        LET generated == generate_monthly_insights(record, service)
        IN  IF client = "raises" \/ generated.raised
            THEN insights' = Placeholder /\ UNCHANGED journal
            ELSE /\ insights' = generated.text
                 /\ journal' = [journal EXCEPT !.requests = @ + 1]
    /\ Continues("save")
    /\ UNCHANGED <<script, data_dir, record, loaded, chart_paths, config>>
    /\ UNCHANGED <<est_vars, daily_vars, streak_vars, month_vars, ins_vars, embed_vars, sec_vars>>

\* Lines 383-391: the report is written outside any try block.
SaveMonthlyReport ==
    /\ script = "monthly_report"
    /\ main_pc = "save"
    /\ record' = with_member(with_member(record, "ai_insights", insights),
                             "chart_paths", chart_paths)
    /\ \E o \in WriteOutcomes(json_dump(record', monthly_data_keys)) :
        /\ data_dir' = [data_dir EXCEPT
                ![Report] = written(@, json_dump(record', monthly_data_keys), o)]
        /\ CASE o.kind = "ok" -> Continues("discord")
             [] o.kind = "interrupted" -> Ends("killed")
             [] OTHER -> Ends("1")
    /\ journal' = [journal EXCEPT !.writes = @ + 1]
    /\ UNCHANGED <<script, loaded, insights, chart_paths, config>>
    /\ UNCHANGED <<est_vars, daily_vars, streak_vars, month_vars, ins_vars, embed_vars, sec_vars>>

SummaryFailureEndsRun ==
    /\ script = "monthly_report"
    /\ main_pc = "discord"
    /\ Delivery("discord", config.discord)
    /\ IF config.discord /\ journal'.sent[Len(journal'.sent)].outcome # "sent"
       THEN Ends("1")
       ELSE Continues("email")
    /\ UNCHANGED <<script, data_dir, record, loaded, insights, chart_paths, config>>
    /\ UNCHANGED <<est_vars, daily_vars, streak_vars, month_vars, ins_vars, embed_vars, sec_vars>>

\* Lines 393-404
SendMonthlySummary ==
    /\ script = "monthly_report"
    /\ main_pc = "discord"
    /\ Delivery("discord", config.discord)
    /\ Continues("email")
    /\ UNCHANGED <<script, data_dir, record, loaded, insights, chart_paths, config>>
    /\ UNCHANGED <<est_vars, daily_vars, streak_vars, month_vars, ins_vars, embed_vars, sec_vars>>

\* Lines 406-434: the email in its own try block, then the summary and the
\* end of main().
SendEmail ==
    /\ script = "monthly_report"
    /\ main_pc = "email"
    /\ Delivery("email", config.email)
    /\ Ends("0")
    /\ UNCHANGED <<script, data_dir, record, loaded, insights, chart_paths, config>>
    /\ UNCHANGED <<est_vars, daily_vars, streak_vars, month_vars, ins_vars, embed_vars, sec_vars>>

RunNext ==
    \/ FetchGitHubCommits
    \/ SaveData
    \/ GenerateInsights
    \/ SendToDiscord
    \/ LoadDailyData
    \/ AggregateData
    \/ GenerateCharts
    \/ GenerateMonthlyInsights
    \/ SaveMonthlyReport
    \/ SendMonthlySummary
    \/ SendEmail

SpecRun == RunInit /\ [][RunNext]_vars

(***************************************************************************)
(* utils/gemini_client.py: generate_daily_insights and                     *)
(* generate_monthly_insights called on their own                           *)
(***************************************************************************)

\* What a caller can put under 'previous_days': nothing at all, an empty
\* list, the records of one or two earlier days.
PreviousDays ==
    {<<>>, <<SavedDay(Jan(1), 3)>>, <<SavedDay(<<2023, 12, 31>>, 0), SavedDay(Jan(1), 3)>>}

\* The records get_daily_commits returns for the accounts, as main() hands
\* them on.
DailyRecords ==
    {commit_data_of_day(date_str, get_daily_commits(account).commits_data) :
        account \in {a \in Accounts : ~get_daily_commits(a).raised}}

\* The records aggregate_monthly_data returns for up to two daily records,
\* with the month main() adds.
MaxInsightDays == 2

MonthlyRecords ==
    {with_member(with_member(aggregate_monthly_data(days).monthly,
                             "month", <<"January", 2024>>),
                 "month_str", <<2024, 1>>) :
        days \in {d \in SeqsUpTo(DayRecords, MaxInsightDays) :
                    ~aggregate_monthly_data(d).raised}}

InsightsInit ==
    /\ \/ /\ ins_pc = "generate_daily_insights"
          /\ \E r \in DailyRecords :
                \/ ins_data = r
                \/ \E prev \in PreviousDays : ins_data = with_member(r, "previous_days", prev)
       \/ /\ ins_pc = "generate_monthly_insights"
          /\ ins_data \in MonthlyRecords
    /\ ins_service \in ServiceOutcomes
    /\ ins_result = NoInsightsResult
    /\ embed_insights = <<>>
    /\ embed_result = <<>>
    /\ embed_pc = "idle"
    /\ sec_commits = <<>>
    /\ sec_result = 0
    /\ sec_pc = "idle"
    /\ est_commits = <<>>
    /\ est_result = 0
    /\ est_pc = "idle"
    /\ daily_repos = NoDailySource
    /\ daily_result = NoDailyResult
    /\ daily_pc = "idle"
    /\ streak_days = EmptyMap
    /\ streak_result = NoStreakResult
    /\ streak_pc = "idle"
    /\ month_data = <<>>
    /\ month_result = NoMonthResult
    /\ month_pc = "idle"
    /\ script = "none"
    /\ main_pc = "idle"
    /\ exit_status = "running"
    /\ data_dir = <<>>
    /\ record = <<>>
    /\ loaded = <<>>
    /\ insights = <<>>
    /\ chart_paths = <<>>
    /\ journal = <<>>
    /\ config = <<>>

CallGenerateDailyInsights ==
    /\ ins_pc = "generate_daily_insights"
    /\ ins_result' = generate_daily_insights(ins_data, ins_service)
    /\ ins_pc' = "return"
    /\ UNCHANGED <<ins_data, ins_service>>
    /\ UNCHANGED <<est_vars, daily_vars, streak_vars, month_vars, run_vars, embed_vars, sec_vars>>

CallGenerateMonthlyInsights ==
    /\ ins_pc = "generate_monthly_insights"
    /\ ins_result' = generate_monthly_insights(ins_data, ins_service)
    /\ ins_pc' = "return"
    /\ UNCHANGED <<ins_data, ins_service>>
    /\ UNCHANGED <<est_vars, daily_vars, streak_vars, month_vars, run_vars, embed_vars, sec_vars>>

InsightsNext == CallGenerateDailyInsights \/ CallGenerateMonthlyInsights

SpecInsights == InsightsInit /\ [][InsightsNext]_vars

(***************************************************************************)
(* utils/discord_notifier.py: the insights field of the embeds             *)
(***************************************************************************)

\* The longest insights text handed to the builders.
MaxInsightsLength == 1505

\* An insights text is the sequence of its characters.
TextOfLength(n) == [i \in 1..n |-> <<"a", "b", "c", "d", "e", "f", "g">>[(i % 7) + 1]]

\* The lengths tried: the short ones, those around the two cut-off lengths
\* and around Discord's limit for a field value.
InsightsLengths ==
    {n \in 0..MaxInsightsLength : n <= 3 \/ (n >= 995 /\ n <= 1030) \/ n >= 1495}

DAILY_CUT == 1000

MONTHLY_CUT == 1500

\* "Discord limit is 1024 per field"
FIELD_VALUE_LIMIT == 1024

\* insights[:cut] + "..." if len(insights) > cut else insights
insights_truncated(text, cut) ==
    IF Len(text) > cut THEN SubSeq(text, 1, cut) \o <<".", ".", ".">> ELSE text

\* if insights: embed["fields"].append({"name": ..., "value": insights_truncated})
\* The fields before it do not depend on insights and are left out.
_build_daily_embed(text) ==
    IF text # <<>>
    THEN <<[name |-> "AI Insights", value |-> insights_truncated(text, DAILY_CUT)]>>
    ELSE <<>>

_build_monthly_embed(text) ==
    IF text # <<>>
    THEN <<[name |-> "AI Analysis", value |-> insights_truncated(text, MONTHLY_CUT)]>>
    ELSE <<>>

EmbedInit ==
    /\ \E n \in InsightsLengths : embed_insights = TextOfLength(n)
    /\ embed_result = <<>>
    /\ embed_pc = "call"
    /\ ins_data = <<>>
    /\ ins_service = "none"
    /\ ins_result = NoInsightsResult
    /\ ins_pc = "idle"
    /\ est_commits = <<>>
    /\ est_result = 0
    /\ est_pc = "idle"
    /\ daily_repos = NoDailySource
    /\ daily_result = NoDailyResult
    /\ daily_pc = "idle"
    /\ streak_days = EmptyMap
    /\ streak_result = NoStreakResult
    /\ streak_pc = "idle"
    /\ month_data = <<>>
    /\ month_result = NoMonthResult
    /\ month_pc = "idle"
    /\ script = "none"
    /\ main_pc = "idle"
    /\ exit_status = "running"
    /\ data_dir = <<>>
    /\ record = <<>>
    /\ loaded = <<>>
    /\ insights = <<>>
    /\ chart_paths = <<>>
    /\ journal = <<>>
    /\ config = <<>>
    /\ sec_commits = <<>>
    /\ sec_result = 0
    /\ sec_pc = "idle"

BuildDailyEmbed ==
    /\ embed_pc = "call"
    /\ embed_result' = _build_daily_embed(embed_insights)
    /\ embed_pc' = "daily"
    /\ UNCHANGED embed_insights
    /\ UNCHANGED <<est_vars, daily_vars, streak_vars, month_vars, run_vars, ins_vars, sec_vars>>

BuildMonthlyEmbed ==
    /\ embed_pc = "call"
    /\ embed_result' = _build_monthly_embed(embed_insights)
    /\ embed_pc' = "monthly"
    /\ UNCHANGED embed_insights
    /\ UNCHANGED <<est_vars, daily_vars, streak_vars, month_vars, run_vars, ins_vars, sec_vars>>

EmbedNext == BuildDailyEmbed \/ BuildMonthlyEmbed

SpecEmbed == EmbedInit /\ [][EmbedNext]_vars

(***************************************************************************)
(* utils/github_api.py: _estimate_time_spent on timestamps to the second   *)
(*                                                                         *)
(* GitHub dates a commit to the second.  total_hours is a Python float, an *)
(* IEEE 754 double: every quotient gap / 3600 and every sum is rounded to  *)
(* SIGNIFICANT_BITS binary digits, a tie going to the even neighbour.  A   *)
(* double below 2^WHOLE_BITS that is 0 or at least 2^-LEAST_EXPONENT is    *)
(* written here exactly, by its binary digits: digit i of 1..DOUBLE_WIDTH  *)
(* has the weight 2^(WHOLE_BITS - i) hours.                                *)
(***************************************************************************)

\* Bounds of the inputs: the commits of one day in one zone, by the second
\* of the day of their timestamp.
MaxSecCommits == 2
SecondsOfDay == {0, 2, 120, 198, 1440, 7200, 7398, 7399}

\* A double has 52 stored binary digits after its leading 1.
SIGNIFICANT_BITS == 52 + 1
SECONDS_PER_HOUR == 3600

\* With at most MaxSecCommits + 1 timestamps no total reaches 2^WHOLE_BITS
\* hours, and a gap of one second is more than 2^-12 hours.
WHOLE_BITS == MaxSecCommits + 1

DOUBLE_WIDTH == WHOLE_BITS + 12 + SIGNIFICANT_BITS - 1

zeros(n) == [i \in 1..n |-> 0]

\* 0.0, and the 0.5 of the base allowance.
ZERO_HOURS == zeros(DOUBLE_WIDTH) \o <<>>

BASE_HOURS == zeros(WHOLE_BITS) \o <<1>> \o zeros(DOUBLE_WIDTH - WHOLE_BITS - 1)

\* The binary digits of a whole number below 2^WHOLE_BITS.
whole_digits(q) == [i \in 1..WHOLE_BITS |-> (q \div 2^(WHOLE_BITS - i)) % 2]

\* What is left of r (r < den) after n doublings modulo den, fifteen
\* doublings at a time.
RECURSIVE doubled_rest(_, _, _)
doubled_rest(r, den, n) ==
    IF n <= 15 THEN (r * 2^n) % den
    ELSE doubled_rest((r * 2^15) % den, den, n - 15)

\* The first n binary digits after the point of r / den (r < den).
fraction_digits(r, den, n) ==
    [k \in 1..n |-> (2 * doubled_rest(r, den, k - 1)) \div den]

\* The double nearest to an exact value, given by the digits of its binary
\* expansion and by whether something non-zero follows them: the first
\* SIGNIFICANT_BITS digits from the leading 1 are kept, and one unit in the
\* last place is added when what is dropped is more than half of it, or is
\* half of it and the last digit kept is odd.
nearest_double(digits, more) ==
    LET ones == {i \in DOMAIN digits : digits[i] = 1}
    IN  IF ones = {} THEN ZERO_HOURS
        ELSE LET first == CHOOSE i \in ones : \A j \in ones : i <= j
                 last == first + SIGNIFICANT_BITS - 1
                 digit(n) == IF n \in DOMAIN digits THEN digits[n] ELSE 0
                 beyond == more \/ (\E j \in ones : j > last + 1)
                 up == digit(last + 1) = 1 /\ (beyond \/ digit(last) = 1)
                 kept == SubSeq(digits, 1, last) \o zeros(DOUBLE_WIDTH - last)
                 stop == CHOOSE k \in 1..last :
                             kept[k] = 0 /\ \A j \in (k + 1)..last : kept[j] = 1
             IN  IF up
                 THEN SubSeq(kept, 1, stop - 1) \o <<1>> \o zeros(DOUBLE_WIDTH - stop)
                 ELSE kept

\* timedelta.total_seconds() / 3600: the seconds are a whole number, which
\* a double holds exactly, and the quotient is rounded once.
seconds_to_hours(seconds) ==
    LET rest == seconds % SECONDS_PER_HOUR
        places == DOUBLE_WIDTH - WHOLE_BITS + 1
    IN  nearest_double(whole_digits(seconds \div SECONDS_PER_HOUR)
                           \o fraction_digits(rest, SECONDS_PER_HOUR, places),
                       doubled_rest(rest, SECONDS_PER_HOUR, places) # 0)

\* Whether the digits after digit i of a and b carry into digit i: some
\* digit is 1 in both, and of every digit between exactly one is 1.
carry_into(a, b, i) ==
    \E j \in (i + 1)..Len(a) :
        /\ a[j] + b[j] = 2
        /\ \A m \in (i + 1)..(j - 1) : a[m] + b[m] = 1

\* The digits of a + b (the sum is below the weight of the first digit).
digits_sum(a, b) ==
    [i \in 1..Len(a) |-> (a[i] + b[i] + (IF carry_into(a, b, i) THEN 1 ELSE 0)) % 2]
        \o <<>>

\* a + b on doubles: the exact sum, rounded once.
float_add(a, b) == nearest_double(digits_sum(a, b), FALSE)

\* a < b on doubles.
float_less(a, b) ==
    \E i \in 1..DOUBLE_WIDTH : a[i] < b[i] /\ \A j \in 1..(i - 1) : a[j] = b[j]

\* The number whose binary digits are x[from], .., x[to].
RECURSIVE digits_value(_, _, _)
digits_value(x, from, to) ==
    IF to < from THEN 0 ELSE 2 * digits_value(x, from, to - 1) + x[to]

\* 2^k times x, written with 7 more digits before the point.
shifted(x, k) == zeros(7 - k) \o x \o zeros(k)

\* 100 x = 2^6 x + 2^5 x + 2^2 x, exactly.
hundred_times(x) == digits_sum(digits_sum(shifted(x, 6), shifted(x, 5)), shifted(x, 2))

\* round(x, 2) in hundredths: the exact value of the double x is rounded to
\* two decimals, a tie going to the even neighbour.
round_2(x) ==
    LET product == hundred_times(x)
        point == WHOLE_BITS + 7
        whole == digits_value(product, 1, point)
        beyond == \E j \in (point + 2)..Len(product) : product[j] = 1
    IN  IF product[point + 1] = 1 /\ (beyond \/ whole % 2 = 1)
        THEN whole + 1 ELSE whole

\* sorted(commits, key=lambda x: x['timestamp']): in one zone and one day
\* the strings are ordered as the seconds of the day are.
RECURSIVE insert_by_second(_, _)
insert_by_second(x, s) ==
    IF s = <<>> THEN <<x>>
    ELSE IF Head(s).timestamp <= x.timestamp
         THEN <<Head(s)>> \o insert_by_second(x, Tail(s))
         ELSE <<x>> \o s

RECURSIVE sorted_by_second(_, _)
sorted_by_second(commits, acc) ==
    IF commits = <<>> THEN acc
    ELSE sorted_by_second(Tail(commits), insert_by_second(Head(commits), acc))

\* for i in range(1, len(sorted_commits)): gap = seconds / 3600;
\* if gap <= MAX_GAP_HOURS: total_hours += gap.  Rounding keeps the order
\* and MAX_GAP_HOURS is a double, so gap <= MAX_GAP_HOURS exactly when the
\* seconds are at most MAX_GAP_HOURS * 3600.
RECURSIVE float_total_hours(_, _, _)
float_total_hours(s, i, total) ==
    IF i > Len(s) THEN total
    ELSE LET apart == s[i].timestamp - s[i - 1].timestamp
         IN  float_total_hours(s, i + 1,
                 IF apart <= MAX_GAP_HOURS * SECONDS_PER_HOUR
                 THEN float_add(total, seconds_to_hours(apart))
                 ELSE total)

\* total_hours when round() is reached: 0.0 for no commits (the early
\* return), else the counted gaps and then the base allowance.
float_hours_before_rounding(commits) ==
    IF commits = <<>> THEN ZERO_HOURS
    ELSE float_add(float_total_hours(sorted_by_second(commits, <<>>), 2, ZERO_HOURS),
                   BASE_HOURS)

\* The returned value, in hundredths of an hour.
float_estimate_time_spent(commits) == round_2(float_hours_before_rounding(commits))

SecInit ==
    /\ sec_commits \in SeqsUpTo([timestamp : SecondsOfDay], MaxSecCommits)
    /\ sec_result = 0
    /\ sec_pc = "call"
    /\ est_commits = <<>>
    /\ est_result = 0
    /\ est_pc = "idle"
    /\ daily_repos = NoDailySource
    /\ daily_result = NoDailyResult
    /\ daily_pc = "idle"
    /\ streak_days = EmptyMap
    /\ streak_result = NoStreakResult
    /\ streak_pc = "idle"
    /\ month_data = <<>>
    /\ month_result = NoMonthResult
    /\ month_pc = "idle"
    /\ script = "none"
    /\ main_pc = "idle"
    /\ exit_status = "running"
    /\ data_dir = <<>>
    /\ record = <<>>
    /\ loaded = <<>>
    /\ insights = <<>>
    /\ chart_paths = <<>>
    /\ journal = <<>>
    /\ config = <<>>
    /\ ins_data = <<>>
    /\ ins_service = "none"
    /\ ins_result = NoInsightsResult
    /\ ins_pc = "idle"
    /\ embed_insights = <<>>
    /\ embed_result = <<>>
    /\ embed_pc = "idle"

\* self._estimate_time_spent(commits) on timestamps to the second.
EstimateTimeSpentToTheSecond ==
    /\ sec_pc = "call"
    /\ sec_result' = float_estimate_time_spent(sec_commits)
    /\ sec_pc' = "return"
    /\ UNCHANGED <<sec_commits, est_vars, daily_vars, streak_vars, month_vars, run_vars, ins_vars, embed_vars>>

SecNext == EstimateTimeSpentToTheSecond

SpecSeconds == SecInit /\ [][SecNext]_vars


(***************************************************************************)
(* Properties of _estimate_time_spent (checked under SpecEstimate)         *)
(***************************************************************************)

SameZone(commits) ==
    \A i, j \in DOMAIN commits : commits[i].timestamp.offset = commits[j].timestamp.offset

\* The instants of the commits in chronological order.
RECURSIVE InsertInstant(_, _)
InsertInstant(x, s) ==
    IF s = <<>> THEN <<x>>
    ELSE IF Head(s) <= x THEN <<Head(s)>> \o InsertInstant(x, Tail(s))
         ELSE <<x>> \o s

RECURSIVE ChronologicalInstants(_)
ChronologicalInstants(commits) ==
    IF commits = <<>> THEN <<>>
    ELSE InsertInstant(fromisoformat(Head(commits).timestamp),
                       ChronologicalInstants(Tail(commits)))

\* The sum, in minutes, of the gaps between chronologically consecutive
\* instants that are at most `limit` minutes long.
RECURSIVE ShortGapSum(_, _, _)
ShortGapSum(instants, i, limit) ==
    IF i > Len(instants) THEN 0
    ELSE (IF instants[i] - instants[i - 1] <= limit
          THEN instants[i] - instants[i - 1] ELSE 0)
         + ShortGapSum(instants, i + 1, limit)

PermutationsOf(s) ==
    {[i \in DOMAIN s |-> s[f[i]]] : f \in Permutations(DOMAIN s)}

\* C3 (as claimed): for every non-empty list of zoned timestamps, also with
\* different UTC offsets, the estimate is at least 0.5 hours; for the empty
\* list it is 0.
C3_EstimateAtLeastBase ==
    est_pc = "return" =>
        IF est_commits = <<>> THEN est_result = 0 ELSE est_result >= 50

\* C3, reached case: a non-empty list mixing UTC offsets has been estimated.
C3_MixedOffsetsEstimated ==
    /\ est_pc = "return"
    /\ est_commits # <<>>
    /\ ~SameZone(est_commits)

\* What does hold of the code: with one common UTC offset the estimate of a
\* non-empty list is at least 0.5 hours.
EstimateAtLeastBaseSameZone ==
    (est_pc = "return" /\ est_commits # <<>> /\ SameZone(est_commits))
        => est_result >= 50

\* C4: the estimate does not depend on the order of the input: every
\* permutation of the list (its reversal among them) gives the same value.
C4_OrderIndependent ==
    est_pc = "return" =>
        \A p \in PermutationsOf(est_commits) : _estimate_time_spent(p) = est_result

\* C4, reached case: a list whose timestamp strings are not in ascending
\* order, two of them a counted gap apart, has been estimated.
C4_UnorderedEstimated ==
    /\ est_pc = "return"
    /\ Len(est_commits) >= 2
    /\ ~StrLeq(est_commits[1].timestamp, est_commits[2].timestamp)
    /\ est_result > 50

\* C5 (as claimed): for a non-empty input the estimate is 0.5 hours plus the
\* gaps between chronologically consecutive timestamps that are at most
\* 2 hours long (rounded to 2 decimals).
C5_ChronologicalGapSum ==
    (est_pc = "return" /\ est_commits # <<>>) =>
        est_result =
            RoundHalfEven(
                (ShortGapSum(ChronologicalInstants(est_commits), 2, 2 * 60) + 30) * 100,
                60)

\* What does hold of the code: C5's formula for lists with one common UTC
\* offset, where the string order is the chronological order.
ChronologicalGapSumSameZone ==
    SameZone(est_commits) => C5_ChronologicalGapSum

\* C5's examples: one timestamp gives 0.5, two 3 hours apart 0.5, two 1 hour
\* apart 1.5, two exactly 2 hours apart 2.5.
EstimateExamples ==
    LET c(m) == [timestamp |-> [local |-> m, offset |-> 0]]
    IN  /\ _estimate_time_spent(<<c(60)>>) = 50
        /\ _estimate_time_spent(<<c(60), c(60), c(60)>>) = 50
        /\ _estimate_time_spent(<<c(0), c(180)>>) = 50
        /\ _estimate_time_spent(<<c(180), c(0)>>) = 50
        /\ _estimate_time_spent(<<c(0), c(60)>>) = 150
        /\ _estimate_time_spent(<<c(0), c(120)>>) = 250
        /\ _estimate_time_spent(<<c(180), c(181)>>) = 52
        /\ _estimate_time_spent(<<[timestamp |-> [local |-> 60, offset |-> 0]],
                                  [timestamp |-> [local |-> 120, offset |-> 300]]>>) = -350
        /\ _estimate_time_spent(<<c(60), [timestamp |-> [local |-> 60, offset |-> -60]],
                                  [timestamp |-> [local |-> 60, offset |-> 300]]>>) = -450

(***************************************************************************)
(* Properties of get_daily_commits (checked under SpecDaily)               *)
(***************************************************************************)

RECURSIVE SeqSum(_)
SeqSum(s) == IF s = <<>> THEN 0 ELSE Head(s) + SeqSum(Tail(s))

\* get_daily_commits has returned a record.
DailyReturned == daily_pc = "return" /\ ~daily_result.raised

DailyRecord == daily_result.commits_data

\* The repository, as get_repos() yielded it, behind an entry of the record.
SourceRepo(name) == CHOOSE r \in Range(daily_repos.repos) : r.name = name

Languages == {language_map[k][2] : k \in DOMAIN language_map}

\* The commit changed a file whose lower-cased extension maps to language L.
TouchesLanguage(commit, L) ==
    \E j \in DOMAIN commit.files, k \in DOMAIN language_map :
        /\ language_map[k][2] = L
        /\ lower(commit.files[j].suffix) = language_map[k][1]

TouchesSomeLanguage(commit) == \E L \in Languages : TouchesLanguage(commit, L)

\* Detection gives a non-empty map for the repository: it was not cut short
\* by an unexpected error, and a commit whose files could be fetched changed
\* a file of a known language.
DetectionNonEmpty(repo) ==
    /\ \A i \in DOMAIN repo.commits : repo.commits[i].fetch_error # "Exception"
    /\ \E i \in DOMAIN repo.commits :
        /\ repo.commits[i].fetch_error = "none"
        /\ TouchesSomeLanguage(repo.commits[i])

\* Every commit of the repository adds to its languages_used: the fallback
\* credits them all, and so does a detection in which every commit was
\* fetched, changed a file of a known language and has a short sha of its own.
EveryCommitContributes(repo) ==
    \/ ~DetectionNonEmpty(repo)
    \/ /\ \A i \in DOMAIN repo.commits :
            /\ repo.commits[i].fetch_error = "none"
            /\ TouchesSomeLanguage(repo.commits[i])
       /\ \A i, j \in DOMAIN repo.commits :
            i # j => short_sha(repo.commits[i].sha) # short_sha(repo.commits[j].sha)

RepoLanguageSums ==
    [i \in DOMAIN DailyRecord.repositories |->
        SumValues(DailyRecord.repositories[i].languages_used)]

\* C1: in every returned daily record total_commits is the sum of
\* commits_count over the entries of repositories (0 when there are none),
\* whatever repositories and commits failed.
C1_TotalIsSumOfRepositories ==
    DailyReturned =>
        DailyRecord.total_commits =
            SeqSum([i \in DOMAIN DailyRecord.repositories |->
                        DailyRecord.repositories[i].commits_count])

\* C1, reached case: a record holding two repositories with different commit
\* counts, returned although another repository was skipped.
C1_TwoStoredOneSkipped ==
    /\ DailyReturned
    /\ Len(DailyRecord.repositories) = 2
    /\ DailyRecord.repositories[1].commits_count # DailyRecord.repositories[2].commits_count
    /\ \E i \in DOMAIN daily_repos.repos :
          daily_repos.repos[i].list_error = "GithubException"

\* C2 (as claimed): in every returned daily record the values of the global
\* languages map sum to at least total_commits.
C2_LanguagesCoverCommits ==
    DailyReturned => SumValues(DailyRecord.languages) >= DailyRecord.total_commits

\* C2 (amended): the values of the global languages map sum to the values
\* of all repositories' languages_used, which is at least one per stored
\* repository; the sum reaches total_commits when every commit of every
\* stored repository contributes to its repository's languages_used.
C2_LanguagesCoverRepositories ==
    DailyReturned =>
        /\ SumValues(DailyRecord.languages) = SeqSum(RepoLanguageSums)
        /\ SumValues(DailyRecord.languages) >= Len(DailyRecord.repositories)
        /\ (\A i \in DOMAIN DailyRecord.repositories :
                EveryCommitContributes(SourceRepo(DailyRecord.repositories[i].name)))
            => SumValues(DailyRecord.languages) >= DailyRecord.total_commits

\* C2, reached case: a record in which a repository has a commit with a
\* detected language beside one without, so that the languages sum to less
\* than total_commits.
C2_PartlyDetectedRecord ==
    /\ DailyReturned
    /\ DailyRecord.total_commits >= 2
    /\ SumValues(DailyRecord.languages) < DailyRecord.total_commits
    /\ SumValues(DailyRecord.languages) >= 1

\* C6 (as claimed): for every repository of the record and every language
\* L, languages_used[L] is the number of the repository's commits that
\* changed at least one file whose extension maps to L.
C6_CountsCommitsTouching ==
    DailyReturned =>
        \A i \in DOMAIN DailyRecord.repositories :
            LET entry == DailyRecord.repositories[i]
                repo == SourceRepo(entry.name)
            IN  \A L \in Languages \cup DOMAIN entry.languages_used :
                    Get(entry.languages_used, L, 0) =
                        Cardinality({j \in DOMAIN repo.commits :
                                        TouchesLanguage(repo.commits[j], L)})

\* C6 (amended): for every repository whose detection is non-empty and every
\* language L, languages_used[L] is the number of distinct short (7
\* character) shas among the repository's commits whose files could be
\* fetched and that changed at least one file whose lower-cased extension
\* maps to L: commits are counted, not files.
C6_CountsFetchedShortShas ==
    DailyReturned =>
        \A i \in DOMAIN DailyRecord.repositories :
            LET entry == DailyRecord.repositories[i]
                repo == SourceRepo(entry.name)
            IN  DetectionNonEmpty(repo) =>
                    \A L \in Languages \cup DOMAIN entry.languages_used :
                        Get(entry.languages_used, L, 0) =
                            Cardinality({short_sha(repo.commits[j].sha) :
                                j \in {k \in DOMAIN repo.commits :
                                        /\ repo.commits[k].fetch_error = "none"
                                        /\ TouchesLanguage(repo.commits[k], L)}})

\* C6, reached case: a repository with two detected commits of different
\* short shas, one of them changing two Python files (a.py and b.py), the
\* other an upper-case .PY file, has Python: 2.
C6_TwoFilesOneCommit ==
    /\ DailyReturned
    /\ \E i \in DOMAIN DailyRecord.repositories :
        LET entry == DailyRecord.repositories[i]
            repo == SourceRepo(entry.name)
        IN  /\ DetectionNonEmpty(repo)
            /\ Get(entry.languages_used, "Python", 0) = 2
            /\ \E j \in DOMAIN repo.commits :
                /\ Len(repo.commits[j].files) = 2
                /\ \A f \in DOMAIN repo.commits[j].files :
                      repo.commits[j].files[f].suffix = ".py"
            /\ \E j \in DOMAIN repo.commits :
                \E f \in DOMAIN repo.commits[j].files :
                    repo.commits[j].files[f].suffix = ".PY"

\* C7: when detection yields an empty map for a repository with n >= 1
\* commits, its languages_used is exactly {primary language or 'Unknown': n}
\* and the global languages map holds, for every language, the sum of the
\* repositories' languages_used, this n included.
C7_FallbackCreditsPrimary ==
    DailyReturned =>
        /\ \A i \in DOMAIN DailyRecord.repositories :
            LET entry == DailyRecord.repositories[i]
                repo == SourceRepo(entry.name)
                repo_commits == [j \in DOMAIN repo.commits |-> commit_data_of(repo.commits[j])]
                primary == IF repo.language = None THEN "Unknown" ELSE repo.language
            IN  _detect_languages_from_commits(repo_commits) = EmptyMap =>
                    /\ entry.languages_used = (primary :> Len(repo.commits))
                    /\ Get(DailyRecord.languages, primary, 0) >= Len(repo.commits)
        /\ \A L \in Languages \cup {"Unknown"} \cup DOMAIN DailyRecord.languages :
            Get(DailyRecord.languages, L, 0) =
                SeqSum([i \in DOMAIN DailyRecord.repositories |->
                            Get(DailyRecord.repositories[i].languages_used, L, 0)])

\* C7, reached case: a record with a repository of two commits that fell
\* back to 'Unknown' and another that fell back to its declared language.
C7_FallbackApplied ==
    /\ DailyReturned
    /\ \E i, k \in DOMAIN DailyRecord.repositories :
        /\ DailyRecord.repositories[i].languages_used = ("Unknown" :> 2)
        /\ ~DetectionNonEmpty(SourceRepo(DailyRecord.repositories[i].name))
        /\ ~DetectionNonEmpty(SourceRepo(DailyRecord.repositories[k].name))
        /\ DailyRecord.repositories[k].language # "Unknown"

(***************************************************************************)
(* Properties of calculate_longest_streak                                  *)
(***************************************************************************)

StreakReturned == streak_pc = "return"

AllKeysAreDates(commits_by_day) == \A d \in DOMAIN commits_by_day : strptime_ok(d)

\* The day numbers of the days with count > 0.
ActiveDayNumbers(commits_by_day) ==
    {strptime(d) : d \in {k \in DOMAIN commits_by_day : commits_by_day[k] > 0}}

\* n days in a row, from some first day on, are all active.
HasRun(active, n) == \E first \in active : \A k \in 0..(n - 1) : first + k \in active

\* The length of the longest run of consecutive calendar days that are
\* each active.
LongestRun(commits_by_day) ==
    LET active == ActiveDayNumbers(commits_by_day)
    IN  IF active = {} THEN 0
        ELSE CHOOSE n \in 1..Cardinality(active) :
                /\ HasRun(active, n)
                /\ \A longer \in (n + 1)..Cardinality(active) : ~HasRun(active, longer)

SpecExampleDays == Jan(1) :> 1 @@ Jan(2) :> 1 @@ Jan(3) :> 0 @@ Jan(4) :> 1

StreakExamples ==
    /\ calculate_longest_streak(EmptyMap) = [raised |-> FALSE, value |-> 0]
    /\ calculate_longest_streak(Jan(1) :> 5) = [raised |-> FALSE, value |-> 1]
    /\ calculate_longest_streak(SpecExampleDays) = [raised |-> FALSE, value |-> 2]

\* C8: for a map whose keys are calendar dates, calculate_longest_streak
\* returns the length of the longest run of consecutive calendar days that
\* each have count > 0; a day with count 0 ends the run, the empty map gives
\* 0, one active day gives 1, and the map {2024-01-01: 1, 2024-01-02: 1,
\* 2024-01-03: 0, 2024-01-04: 1} gives 2.
C8_LongestRunOfActiveDays ==
    /\ StreakExamples
    /\ StreakReturned /\ AllKeysAreDates(streak_days) =>
          /\ ~streak_result.raised
          /\ streak_result.value = LongestRun(streak_days)

\* The call has returned 2 for the map of the example.
C8_ZeroDayEndsRun ==
    /\ StreakReturned
    /\ streak_days = SpecExampleDays
    /\ streak_result = [raised |-> FALSE, value |-> 2]

(***************************************************************************)
(* Properties of calculate_longest_streak: dates absent from the map       *)
(***************************************************************************)

\* Every key of the map is active.
AllActive(commits_by_day) == \A d \in DOMAIN commits_by_day : commits_by_day[d] > 0

\* The longest block of neighbours in the sorted key list that are all
\* active, whatever the calendar distance between them.
LongestListRun(commits_by_day) ==
    LET dates == sorted_dates(DOMAIN commits_by_day)
        blocks == {<<i, j>> \in (DOMAIN dates) \X (DOMAIN dates) :
                      i <= j /\ \A k \in i..j : commits_by_day[dates[k]] > 0}
    IN  IF blocks = {} THEN 0
        ELSE CHOOSE n \in 1..Len(dates) :
                /\ \E b \in blocks : b[2] - b[1] + 1 = n
                /\ \A b \in blocks : b[2] - b[1] + 1 <= n

\* The longest block of neighbours in the sorted key list that are all
\* active and each one calendar day after the one before.
LongestDayByDayRun(commits_by_day) ==
    LET dates == sorted_dates(DOMAIN commits_by_day)
        blocks == {<<i, j>> \in (DOMAIN dates) \X (DOMAIN dates) :
                      /\ i <= j
                      /\ \A k \in i..j : commits_by_day[dates[k]] > 0
                      /\ \A k \in (i + 1)..j :
                            strptime(dates[k]) - strptime(dates[k - 1]) = 1}
    IN  IF blocks = {} THEN 0
        ELSE CHOOSE n \in 1..Len(dates) :
                /\ \E b \in blocks : b[2] - b[1] + 1 = n
                /\ \A b \in blocks : b[2] - b[1] + 1 <= n

\* Two neighbours of the sorted key list are more than one day apart.
HasMissingDay(commits_by_day) ==
    LET dates == sorted_dates(DOMAIN commits_by_day)
    IN  \E k \in 2..Len(dates) : strptime(dates[k]) - strptime(dates[k - 1]) > 1

\* C23 as stated: a date absent from commits_by_day does not break a
\* streak; the run continues over neighbours of the sorted key list that
\* are more than a day apart, and only a key with count 0 breaks it.
C23_AbsentDateKeepsRun ==
    StreakReturned /\ AllKeysAreDates(streak_days) =>
        /\ ~streak_result.raised
        /\ streak_result.value = LongestListRun(streak_days)

\* C23 as the code has it: a date absent from commits_by_day breaks a
\* streak as a key with count 0 does; an active key more than one calendar
\* day after its neighbour in the sorted key list starts a new run of 1, so
\* a map of active keys with a missing day between two of them gives less
\* than the number of its keys.
C23_AbsentDateBreaksRun ==
    StreakReturned /\ AllKeysAreDates(streak_days) =>
        /\ ~streak_result.raised
        /\ streak_result.value = LongestDayByDayRun(streak_days)
        /\ AllActive(streak_days) /\ HasMissingDay(streak_days) =>
                streak_result.value < Cardinality(DOMAIN streak_days)

\* The call has returned 2 for {2024-01-01: 1, 2024-01-02: 1, 2024-01-04: 1}:
\* the third key, two days after the second, started a new run.
C23_MissingDayEndedRun ==
    /\ StreakReturned
    /\ streak_days = (Jan(1) :> 1 @@ Jan(2) :> 1 @@ Jan(4) :> 1)
    /\ streak_result = [raised |-> FALSE, value |-> 2]

(***************************************************************************)
(* Properties of aggregate_monthly_data                                    *)
(***************************************************************************)

MonthReturned == month_pc = "return"

Monthly == month_result.monthly

DayTotals == [i \in DOMAIN month_data |-> month_data[i].total_commits]

ActiveRecords == {i \in DOMAIN month_data : month_data[i].total_commits > 0}

\* C9: for a non-empty sequence of daily records, total_commits is the sum
\* of the records' total_commits, active_days is the number of records with
\* total_commits > 0, and avg_commits_per_day is total_commits divided by
\* the number of records, rounded to 2 decimals.  The three fields are set
\* before the streak is computed, so they hold of the record also when that
\* computation raises.
C9_MonthlyTotals ==
    MonthReturned /\ month_data # <<>> =>
        /\ Monthly.total_commits = SeqSum(DayTotals)
        /\ Monthly.active_days = Cardinality(ActiveRecords)
        /\ Monthly.avg_commits_per_day =
              RoundHalfEven(100 * SeqSum(DayTotals), Len(month_data))

\* Three records with 3, 0 and 5 commits have been aggregated: 2 active
\* days, 2.67 commits a day.
C9_ThreeZeroFive ==
    /\ MonthReturned
    /\ ~month_result.raised
    /\ DayTotals = <<3, 0, 5>>
    /\ Monthly.total_commits = 8
    /\ Monthly.active_days = 2
    /\ Monthly.avg_commits_per_day = 267

\* The repository names of the daily records.
MonthRepoNames ==
    UNION {{repo.name : repo \in Range(month_data[i].repositories)} :
            i \in DOMAIN month_data}

\* The places of one repository in day i's repositories (none, or one).
Entries(i, name) ==
    {j \in DOMAIN month_data[i].repositories : month_data[i].repositories[j].name = name}

\* The commits of one repository in day i.
DayCount(i, name) ==
    IF Entries(i, name) = {} THEN 0
    ELSE month_data[i].repositories[CHOOSE j \in Entries(i, name) : TRUE].commits_count

\* The commits of one repository over the month.
AccumulatedCount(name) == SeqSum([i \in DOMAIN month_data |-> DayCount(i, name)])

\* Where a repository is first seen: the day, and the place in that day's
\* repositories.
FirstSeen(name) ==
    LET day == CHOOSE i \in DOMAIN month_data :
                   /\ Entries(i, name) # {}
                   /\ \A h \in 1..(i - 1) : Entries(h, name) = {}
    IN  <<day, CHOOSE j \in Entries(day, name) : TRUE>>

RanksBefore(a, b) ==
    \/ AccumulatedCount(a) > AccumulatedCount(b)
    \/ /\ AccumulatedCount(a) = AccumulatedCount(b)
       /\ \/ FirstSeen(a)[1] < FirstSeen(b)[1]
          \/ FirstSeen(a)[1] = FirstSeen(b)[1] /\ FirstSeen(a)[2] < FirstSeen(b)[2]

\* C10: top_repositories lists repository names by accumulated commit count
\* descending, repositories with equal counts in first-seen order, cut to
\* at most 10 names.  Exactly one list satisfies this for a given input, so
\* the same input always yields the same list.
C10_TopRepositoriesRanked ==
    MonthReturned =>
        LET top == Monthly.top_repositories
        IN  /\ Len(top) = IF Cardinality(MonthRepoNames) < 10
                          THEN Cardinality(MonthRepoNames) ELSE 10
            /\ \A i \in DOMAIN top : top[i] \in MonthRepoNames
            /\ \A i, j \in DOMAIN top : i < j => RanksBefore(top[i], top[j])
            /\ \A name \in MonthRepoNames \ Range(top) :
                  \A i \in DOMAIN top : RanksBefore(top[i], name)

\* Eleven repositories have been ranked: the list is cut to 10, it is not
\* in insertion order, and the repository left out has as many commits as
\* the last one listed.
C10_EleventhLeftOut ==
    /\ MonthReturned
    /\ Cardinality(MonthRepoNames) = 11
    /\ Len(Monthly.top_repositories) = 10
    /\ Monthly.top_repositories[1] # "r01"
    /\ \E name \in MonthRepoNames \ Range(Monthly.top_repositories) :
          AccumulatedCount(name) = AccumulatedCount(Monthly.top_repositories[10])

\* The dates of commits_by_day with a count > 0.
ActiveDates == {d \in DOMAIN Monthly.commits_by_day : Monthly.commits_by_day[d] > 0}

RecordDates == [i \in DOMAIN month_data |-> month_data[i].date]

DistinctDates == \A i, j \in DOMAIN month_data : i # j => RecordDates[i] # RecordDates[j]

\* C11: in every monthly record active_days equals the number of dates of
\* commits_by_day with a count > 0, for every sequence of daily records,
\* those that repeat a date or carry no date included.
C11_ActiveDaysCountActiveDates ==
    MonthReturned => Monthly.active_days = Cardinality(ActiveDates)

\* Two active records of the same date have been aggregated: one date in
\* commits_by_day, two active days.
C11_RepeatedDateCountedTwice ==
    /\ MonthReturned
    /\ Len(month_data) = 2
    /\ RecordDates = <<Jan(1), Jan(1)>>
    /\ Cardinality(ActiveDates) = 1
    /\ Monthly.active_days = 2

\* When no two records share a date (the absent date counting as one), the
\* two numbers agree.
ActiveDaysCountDistinctDates ==
    MonthReturned /\ DistinctDates => Monthly.active_days = Cardinality(ActiveDates)

\* C12: in every monthly record that aggregate_monthly_data returns,
\* longest_streak <= active_days.
C12_StreakAtMostActiveDays ==
    MonthReturned /\ ~month_result.raised =>
        Monthly.longest_streak <= Monthly.active_days

\* A month of 8 days has been aggregated whose longest run is at least 3
\* days and shorter than the number of active days.
C12_RunShorterThanActiveDays ==
    /\ MonthReturned
    /\ ~month_result.raised
    /\ Len(month_data) = 8
    /\ Monthly.longest_streak >= 3
    /\ Monthly.longest_streak < Monthly.active_days

\* C13: on an empty sequence of daily records aggregate_monthly_data
\* returns, without raising, a record with avg_commits_per_day 0,
\* active_days 0, total_commits 0, an empty top_repositories and
\* longest_streak 0.
C13_EmptyMonth ==
    MonthReturned /\ month_data = <<>> =>
        /\ ~month_result.raised
        /\ Monthly.avg_commits_per_day = 0
        /\ Monthly.active_days = 0
        /\ Monthly.total_commits = 0
        /\ Monthly.top_repositories = <<>>
        /\ Monthly.longest_streak = 0

\* The call on the empty sequence has returned.
C13_EmptyMonthReturned ==
    /\ MonthReturned
    /\ month_data = <<>>
    /\ ~month_result.raised
    /\ Monthly.commits_by_day = EmptyMap
    /\ Monthly.total_repos = 0

(***************************************************************************)
(* Properties of get_daily_commits: failures                               *)
(***************************************************************************)

\* The entries get_daily_commits stores for one repository when it is the
\* only one the user has.
EntriesAlone(repo) ==
    get_daily_commits([repos |-> <<repo>>, enum_error |-> "none"]).commits_data.repositories

\* The entries of the repositories that could be listed, each as it is
\* stored alone, in the order of enumeration.
RECURSIVE EntriesOfAccessible(_, _)
EntriesOfAccessible(repos, i) ==
    IF i > Len(repos) THEN <<>>
    ELSE (IF repos[i].list_error = "GithubException" THEN <<>> ELSE EntriesAlone(repos[i]))
         \o EntriesOfAccessible(repos, i + 1)

DetectedCount(repo, L) ==
    Cardinality({short_sha(repo.commits[j].sha) :
        j \in {k \in DOMAIN repo.commits :
                /\ repo.commits[k].fetch_error = "none"
                /\ TouchesLanguage(repo.commits[k], L)}})

PrimaryEntry(repo) ==
    (IF repo.language = None THEN "Unknown" ELSE repo.language) :> Len(repo.commits)

\* The languages_used of entry i is the detection result of its repository.
IsDetectionResult(entry, repo) ==
    /\ DetectionNonEmpty(repo)
    /\ \A L \in Languages \cup {"Unknown"} \cup DOMAIN entry.languages_used :
          Get(entry.languages_used, L, 0) = DetectedCount(repo, L)
    /\ \A L \in DOMAIN entry.languages_used : entry.languages_used[L] >= 1

\* The languages_used of entry i is the single primary-language entry.
IsPrimaryEntry(entry, repo) ==
    /\ ~DetectionNonEmpty(repo)
    /\ entry.languages_used = PrimaryEntry(repo)

\* The global languages map after the first n entries were stored.
RECURSIVE LanguagesAfter(_)
LanguagesAfter(n) ==
    IF n = 0 THEN EmptyMap
    ELSE LET before == LanguagesAfter(n - 1)
             used == DailyRecord.repositories[n].languages_used
         IN  [L \in DOMAIN before \cup DOMAIN used |->
                 Get(before, L, 0) + Get(used, L, 0)]

\* C20: in every daily record each repository's languages_used is either
\* exactly the per-commit detection result or exactly the single entry
\* {primary language or 'Unknown': number of commits}, never a mix of the
\* two, and the global languages map is what adding each repository's
\* languages_used, one repository after the other, gives.
C20_FallbackAllOrNothing ==
    DailyReturned =>
        /\ \A i \in DOMAIN DailyRecord.repositories :
            LET entry == DailyRecord.repositories[i]
                repo == SourceRepo(entry.name)
            IN  IsDetectionResult(entry, repo) \/ IsPrimaryEntry(entry, repo)
        /\ DailyRecord.languages = LanguagesAfter(Len(DailyRecord.repositories))

\* A repository whose first commit was detected as Python and whose second
\* commit failed with an unexpected error is stored with the primary entry
\* alone; the Python commit detected before the error is not in it.
C20_PartialDetectionDiscarded ==
    /\ DailyReturned
    /\ \E i \in DOMAIN DailyRecord.repositories :
        LET entry == DailyRecord.repositories[i]
            repo == SourceRepo(entry.name)
        IN  /\ Len(repo.commits) = 2
            /\ repo.commits[1].fetch_error = "none"
            /\ TouchesLanguage(repo.commits[1], "Python")
            /\ repo.commits[2].fetch_error = "Exception"
            /\ repo.language = "Go"
            /\ entry.languages_used = ("Go" :> 2)
            /\ DailyRecord.languages = ("Go" :> 2)

(***************************************************************************)
(* Properties of aggregate_monthly_data: the weekly buckets                *)
(***************************************************************************)

\* The records whose date parses and falls into ISO week n.
RecordsOfWeek(n) ==
    {i \in DOMAIN month_data :
        strptime_ok(month_data[i].date) /\ isoweek(month_data[i].date) = n}

RECURSIVE SumOfRecords(_)
SumOfRecords(records) ==
    IF records = {} THEN 0
    ELSE LET i == CHOOSE x \in records : TRUE
         IN  month_data[i].total_commits + SumOfRecords(records \ {i})

\* ISO week numbers at the turn of a year: 2023-01-01 is a Sunday of week
\* 52, 2021-01-03 one of week 53, 2024-12-30 the Monday of week 1, and
\* 2024-01-07 / 2024-01-08 are the last day of week 1 and the first of week 2.
WeekExamples ==
    /\ isoweek(<<2023, 1, 1>>) = 52
    /\ isoweek(<<2021, 1, 3>>) = 53
    /\ isoweek(<<2024, 12, 30>>) = 1
    /\ isoweek(<<2024, 1, 7>>) = 1
    /\ isoweek(<<2024, 1, 8>>) = 2
    /\ isoweek(<<2024, 2, 29>>) = 9
    /\ aggregate_monthly_data(
          <<[date |-> <<2024, 12, 29>>, total_commits |-> 2, estimated_hours |-> 50,
             languages |-> EmptyMap, repositories |-> <<>>],
            [date |-> <<2024, 12, 30>>, total_commits |-> 3, estimated_hours |-> 50,
             languages |-> EmptyMap, repositories |-> <<>>]>>).monthly.commits_by_week
          = (week_label(52) :> 2 @@ week_label(1) :> 3)

\* C25: each daily record's commit count is added to the bucket labelled
\* "Week n", n the ISO week number of the record's date; a record whose
\* date does not parse adds to no bucket; so when every date parses the
\* bucket values sum to total_commits.
C25_WeeklyBuckets ==
    /\ WeekExamples
    /\ MonthReturned /\ ~month_result.raised =>
        /\ DOMAIN Monthly.commits_by_week =
              {week_label(n) : n \in {m \in 1..53 : RecordsOfWeek(m) # {}}}
        /\ \A n \in 1..53 :
              RecordsOfWeek(n) # {} =>
                  Monthly.commits_by_week[week_label(n)] = SumOfRecords(RecordsOfWeek(n))
        /\ (\A i \in DOMAIN month_data : strptime_ok(month_data[i].date)) =>
              SumValues(Monthly.commits_by_week) = Monthly.total_commits

\* Eight consecutive days from Monday 2024-01-01 on, all active, have been
\* aggregated: seven commits in "Week 1", one in "Week 2".
C25_TwoWeeks ==
    /\ MonthReturned
    /\ ~month_result.raised
    /\ Len(month_data) = 8
    /\ Monthly.total_commits = 8
    /\ Monthly.commits_by_week = (week_label(1) :> 7 @@ week_label(2) :> 1)

\* A record without a date and one of 2024-01-02 have been aggregated: the
\* commits of the first are in total_commits and in no bucket.
UndatedRecordInNoBucket ==
    /\ MonthReturned
    /\ ~month_result.raised
    /\ Len(month_data) = 2
    /\ month_data[1].date = NoDate
    /\ month_data[1].total_commits = 3
    /\ month_data[2].date = Jan(2)
    /\ month_data[2].total_commits = 0
    /\ Monthly.total_commits = 3
    /\ Monthly.commits_by_week = (week_label(1) :> 0)

(***************************************************************************)
(* Properties of aggregate_monthly_data: the repositories map              *)
(***************************************************************************)

\* total_commits of daily record i is the sum of its repositories'
\* commits_count.
DayIsConsistent(i) ==
    month_data[i].total_commits =
        SeqSum([j \in DOMAIN month_data[i].repositories |->
                    month_data[i].repositories[j].commits_count])

\* C29: when total_commits of every daily record is the sum of its
\* repositories' commits_count, total_commits of the monthly record is the
\* sum of the values of its repositories map, and total_repos is the number
\* of distinct repository names seen over all days.
C29_MonthlyRepositoriesAddUp ==
    MonthReturned /\ ~month_result.raised
                  /\ (\A i \in DOMAIN month_data : DayIsConsistent(i)) =>
        /\ Monthly.total_commits =
              SeqSum([k \in DOMAIN Monthly.repositories |->
                          Monthly.repositories[k].commits_count])
        /\ {Monthly.repositories[k].name : k \in DOMAIN Monthly.repositories}
              = MonthRepoNames
        /\ Len(Monthly.repositories) = Cardinality(MonthRepoNames)
        /\ Monthly.total_repos = Cardinality(MonthRepoNames)

\* Three days have been aggregated, 'insightify' with 3 commits on each
\* and 'blog' with 2 on the first and the last: 13 commits, 2 repositories,
\* 9 and 4 commits in the map.
C29_SharedRepositories ==
    /\ MonthReturned
    /\ ~month_result.raised
    /\ Len(month_data) = 3
    /\ DayTotals = <<5, 3, 5>>
    /\ Monthly.total_commits = 13
    /\ Monthly.total_repos = 2
    /\ \E k \in DOMAIN Monthly.repositories :
          Monthly.repositories[k] = Repo("insightify", 9)
    /\ \E k \in DOMAIN Monthly.repositories :
          Monthly.repositories[k] = Repo("blog", 4)

(***************************************************************************)
(* Properties of get_daily_commits: a commit whose files cannot be fetched *)
(***************************************************************************)

\* Some request for the files of a commit of the repository failed.
SomeFetchFailed(repo) ==
    \E i \in DOMAIN repo.commits : repo.commits[i].fetch_error # "none"

\* The languages detected from the commits whose files were fetched are
\* reported with their counts.
SiblingsReported(entry, repo) ==
    \A L \in Languages :
        DetectedCount(repo, L) >= 1 =>
            Get(entry.languages_used, L, 0) = DetectedCount(repo, L)

\* C21: when the request for the files of one commit fails, with whatever
\* error, only that commit is left out of the detection: every repository
\* that has commits is stored, and the languages detected from its other
\* commits, before and after the failing one, are reported.
C21_OnlyFailingCommitDropped ==
    DailyReturned =>
        /\ \A k \in DOMAIN daily_repos.repos :
            LET repo == daily_repos.repos[k]
            IN  repo.list_error = "none" /\ repo.commits # <<>> =>
                    \E i \in DOMAIN DailyRecord.repositories :
                        DailyRecord.repositories[i].name = repo.name
        /\ \A i \in DOMAIN DailyRecord.repositories :
            LET entry == DailyRecord.repositories[i]
                repo == SourceRepo(entry.name)
            IN  SomeFetchFailed(repo) => SiblingsReported(entry, repo)

\* The same with the failures limited to GithubException, the error the
\* inner handler names.
GithubExceptionDropsOneCommit ==
    DailyReturned =>
        \A i \in DOMAIN DailyRecord.repositories :
            LET entry == DailyRecord.repositories[i]
                repo == SourceRepo(entry.name)
            IN  (\A j \in DOMAIN repo.commits : repo.commits[j].fetch_error # "Exception")
                    => SiblingsReported(entry, repo)

\* A repository of three commits, the first and the third changing Python
\* files, the second failing with an error other than GithubException, is
\* stored with {Python: 3}: the two detected commits are not what is
\* reported, the count is the primary-language fallback over all three.
C21_SiblingsLostOnOtherError ==
    /\ DailyReturned
    /\ \E i \in DOMAIN DailyRecord.repositories :
        LET entry == DailyRecord.repositories[i]
            repo == SourceRepo(entry.name)
        IN  /\ Len(repo.commits) = 3
            /\ repo.commits[1].fetch_error = "none"
            /\ repo.commits[2].fetch_error = "Exception"
            /\ repo.commits[3].fetch_error = "none"
            /\ DetectedCount(repo, "Python") = 2
            /\ repo.language = "Python"
            /\ entry.languages_used = ("Python" :> 3)

\* A repository of three commits whose second request fails with
\* GithubException: the first and the third commit are both counted.
GithubExceptionInTheMiddle ==
    /\ DailyReturned
    /\ \E i \in DOMAIN DailyRecord.repositories :
        LET entry == DailyRecord.repositories[i]
            repo == SourceRepo(entry.name)
        IN  /\ Len(repo.commits) = 3
            /\ repo.commits[1].fetch_error = "none"
            /\ repo.commits[2].fetch_error = "GithubException"
            /\ repo.commits[3].fetch_error = "none"
            /\ DetectedCount(repo, "Python") = 2
            /\ entry.languages_used["Python"] = 2

(***************************************************************************)
(* Properties of get_daily_commits: repositories without commits           *)
(***************************************************************************)

\* C24: a repository with no commits in the window never appears in the
\* daily record: every entry of repositories has commits_count >= 1 and a
\* non-empty commits list, and belongs to a repository whose listing
\* yielded that many commits.
C24_NoEmptyRepositoryStored ==
    DailyReturned =>
        /\ \A i \in DOMAIN DailyRecord.repositories :
            LET entry == DailyRecord.repositories[i]
            IN  /\ entry.commits_count >= 1
                /\ entry.commits # <<>>
                /\ Len(entry.commits) = entry.commits_count
                /\ Len(SourceRepo(entry.name).commits) = entry.commits_count
        /\ \A k \in DOMAIN daily_repos.repos :
            daily_repos.repos[k].commits = <<>> =>
                \A i \in DOMAIN DailyRecord.repositories :
                    DailyRecord.repositories[i].name # daily_repos.repos[k].name

\* A record was returned for three accessible repositories of which the
\* second had no commits in the window: the first and the third are stored.
C24_EmptyRepositoryLeftOut ==
    /\ DailyReturned
    /\ Len(daily_repos.repos) = 3
    /\ \A k \in 1..3 : daily_repos.repos[k].list_error = "none"
    /\ daily_repos.repos[1].commits # <<>>
    /\ daily_repos.repos[2].commits = <<>>
    /\ daily_repos.repos[3].commits # <<>>
    /\ Len(DailyRecord.repositories) = 2
    /\ DailyRecord.repositories[1].name = daily_repos.repos[1].name
    /\ DailyRecord.repositories[2].name = daily_repos.repos[3].name

(***************************************************************************)
(* Properties of get_daily_commits: what a skipped repository leaves       *)
(***************************************************************************)

StoredNames == {DailyRecord.repositories[i].name : i \in DOMAIN DailyRecord.repositories}

RECURSIVE OfStoredRepositories(_)
OfStoredRepositories(messages) ==
    IF messages = <<>> THEN <<>>
    ELSE (IF Head(messages).repo \in StoredNames THEN <<Head(messages)>> ELSE <<>>)
         \o OfStoredRepositories(Tail(messages))

\* C27: a repository skipped because of an access error leaves no trace in
\* the record, also when the error comes partway through the listing of its
\* commits: commit_messages holds exactly the commits of the repositories
\* stored in repositories, its length is total_commits and the sum of the
\* values of commits_by_hour, and estimated_hours is computed from those
\* commits.
C27_SkippedRepositoryLeavesNoTrace ==
    DailyReturned =>
        /\ \A j \in DOMAIN DailyRecord.commit_messages :
              DailyRecord.commit_messages[j].repo \in StoredNames
        /\ Len(DailyRecord.commit_messages) = DailyRecord.total_commits
        /\ SumValues(DailyRecord.commits_by_hour) = DailyRecord.total_commits
        /\ DailyRecord.estimated_hours =
              _estimate_time_spent(OfStoredRepositories(DailyRecord.commit_messages))

\* What holds instead: commit_messages and commits_by_hour count every
\* commit the listings yielded, those of the skipped repositories
\* included, and estimated_hours is computed from all of them.
EveryListedCommitCounted ==
    DailyReturned =>
        LET listed == SeqSum([k \in DOMAIN daily_repos.repos |->
                                Len(daily_repos.repos[k].commits)])
        IN  /\ Len(DailyRecord.commit_messages) = listed
            /\ SumValues(DailyRecord.commits_by_hour) = listed
            /\ DailyRecord.estimated_hours =
                  _estimate_time_spent(DailyRecord.commit_messages)

\* One repository whose listing yielded the commits of 09:00 and 10:00 and
\* then failed, and nothing else: the record has no repository and no
\* commit in total_commits, two commit messages, two commits by hour and
\* 1.5 estimated hours.
C27_SkippedRepositoryLeftCommits ==
    /\ DailyReturned
    /\ Len(daily_repos.repos) = 1
    /\ daily_repos.repos[1].list_error = "GithubException"
    /\ DailyRecord.repositories = <<>>
    /\ DailyRecord.total_commits = 0
    /\ Len(DailyRecord.commit_messages) = 2
    /\ DailyRecord.commits_by_hour = (9 :> 1 @@ 10 :> 1)
    /\ DailyRecord.estimated_hours = 150

(***************************************************************************)
(* Properties of calculate_longest_streak: dates that do not parse         *)
(***************************************************************************)

\* C16: a date string that does not parse is skipped: for every
\* commits_by_day map calculate_longest_streak returns without raising.
C16_UnparseableDateSkipped == StreakReturned => ~streak_result.raised

\* The call has ended for a map with the key '' and the key 2024-01-01,
\* both active: ValueError was raised when '' was parsed as the previous
\* date.
C16_StreakRaisedOnEmptyDate ==
    /\ StreakReturned
    /\ streak_days = (NoDate :> 1 @@ Jan(1) :> 1)
    /\ streak_result.raised

(***************************************************************************)
(* Properties of the daily and the monthly run                             *)
(***************************************************************************)

DailyRun == script = "daily_progress"

MonthlyRun == script = "monthly_report"

IsPrefix(a, b) == Len(a) <= Len(b) /\ a = SubSeq(b, 1, Len(a))

\* C15: when the repositories cannot be enumerated, get_daily_commits
\* raises and the daily run ends with exit status 1 before the day's file
\* is opened for writing, before the insight producer is asked and before
\* anything is sent.
C15_EnumerationErrorFatal ==
    DailyRun /\ config.account.enum_error = "GithubException" =>
        /\ get_daily_commits(config.account).raised
        /\ main_pc \in {"fetch", "end"}
        /\ main_pc = "end" => exit_status = "1"
        /\ journal = NoJournal
        /\ data_dir[Today] \in TodayFiles
        /\ insights = NoText

\* The daily run has ended with status 1 on an account that cannot be
\* enumerated; a file saved earlier that day is as it was.
C15_RunAbortedBeforeSave ==
    /\ DailyRun
    /\ config.account.enum_error = "GithubException"
    /\ main_pc = "end"
    /\ exit_status = "1"
    /\ data_dir[Today] = Intact(SavedDay(Jan(2), 0))
    /\ journal.writes = 0

\* The step that asks the insight producer.
InsightStepGoesOn ==
    main_pc = "insights" =>
        /\ main_pc' = (IF DailyRun THEN "discord" ELSE "save")
        /\ exit_status' = "running"
        /\ insights' # NoText

\* C17: an insight failure is never fatal.  Whatever the insight producer
\* does, the step that asks it leaves a text in insights (the producer's
\* text, its fallback or the placeholder) and goes on to the next step
\* (delivery in the daily run, saving the report in the monthly run); from
\* there on the run always has a next step until it ends; the daily run
\* ends with status 0, the monthly run with status 1 only when writing the
\* report failed.
C17_InsightFailureNotFatal ==
    /\ [][InsightStepGoesOn]_vars
    /\ [](insights # NoText /\ main_pc # "end" => ENABLED RunNext)
    /\ [](DailyRun /\ insights # NoText =>
            /\ main_pc \in {"discord", "end"}
            /\ main_pc = "end" => exit_status = "0")
    /\ [](MonthlyRun /\ insights # NoText =>
            /\ main_pc \in {"save", "discord", "email", "end"}
            /\ main_pc = "end" /\ exit_status = "1" =>
                  data_dir[Report].text # json_dump(record, monthly_data_keys))

\* The monthly run has ended with status 0 after its client could not be
\* built or asked: the placeholder is in the saved report and was sent.
C17_MonthlyRunWithPlaceholder ==
    /\ MonthlyRun
    /\ main_pc = "end"
    /\ exit_status = "0"
    /\ insights = Placeholder
    /\ journal.requests = 0
    /\ json_load(data_dir[Report].text).value.ai_insights = Placeholder
    /\ Len(journal.sent) = 2

\* A step that sends to Discord or by email.
DeliveryStepGoesOn ==
    main_pc \in {"discord", "email"} =>
        /\ data_dir' = data_dir
        /\ record' = record
        /\ exit_status' \in {"running", "0"}
        /\ (MonthlyRun /\ main_pc = "discord" => main_pc' = "email")

\* C18: a delivery failure is not fatal.  A delivery step, however the
\* send ends, leaves the data directory and the record as they are and
\* does not end the run with an error; in the monthly run the Discord step
\* always goes on to the email step, so that a run with email enabled that
\* reached the delivery has attempted the email when it ends.
C18_DeliveryFailureNotFatal ==
    /\ [][DeliveryStepGoesOn]_vars
    /\ [](MonthlyRun /\ main_pc = "end" /\ exit_status = "0" /\ insights # NoText =>
            /\ data_dir[Report].text = json_dump(record, monthly_data_keys)
            /\ config.email =>
                  /\ journal.sent # <<>>
                  /\ journal.sent[Len(journal.sent)].channel = "email")
    /\ [](DailyRun /\ main_pc = "end" /\ exit_status = "0" =>
            data_dir[Today].text = json_dump(record, commit_data_keys))

\* The monthly run has ended with status 0 although the Discord send
\* raised: the email was attempted after it and the saved report is whole.
C18_EmailAfterDiscordFailure ==
    /\ MonthlyRun
    /\ main_pc = "end"
    /\ exit_status = "0"
    /\ Len(journal.sent) = 2
    /\ journal.sent[1] = [channel |-> "discord", insights |-> insights, outcome |-> "raises"]
    /\ journal.sent[2].channel = "email"
    /\ journal.sent[2].outcome = "refused"
    /\ data_dir[Report].text = json_dump(record, monthly_data_keys)

\* The day's file holds the whole record as it was fetched, without
\* ai_insights.
SavedBeforeInsights ==
    /\ "ai_insights" \notin DOMAIN record
    /\ data_dir[Today] = Intact(record)

\* C28: in the daily run the record is saved before the insight producer
\* is called, and nothing is sent before the record was saved; when the
\* insight generation fails the file keeps what the first write put there
\* (no ai_insights, no second write) and the Discord notification, when
\* enabled, is still sent, with the placeholder as its insights.
C28_SavedBeforeInsightsAndDelivery ==
    DailyRun =>
        /\ main_pc \in {"insights", "discord"} =>
              journal.writes >= 1 /\ data_dir[Today].exists
        /\ main_pc = "insights" =>
              SavedBeforeInsights /\ journal.requests = 0 /\ insights = NoText
        /\ journal.requests > 0 \/ journal.sent # <<>> \/ insights # NoText =>
              journal.writes >= 1 /\ data_dir[Today].exists
        /\ insights = Placeholder =>
              /\ SavedBeforeInsights
              /\ journal.writes = 1
              /\ main_pc \in {"discord", "end"}
              /\ main_pc = "end" =>
                    /\ exit_status = "0"
                    /\ journal.sent =
                          IF config.discord
                          THEN <<[channel |-> "discord", insights |-> Placeholder,
                                  outcome |-> journal.sent[1].outcome]>>
                          ELSE <<>>

\* The daily run has ended with status 0 for the account with two commits:
\* one write, the file holding the fetched record without ai_insights, and
\* one Discord notification sent with the placeholder.
C28_PlaceholderDelivered ==
    /\ DailyRun
    /\ main_pc = "end"
    /\ exit_status = "0"
    /\ record.total_commits = 2
    /\ SavedBeforeInsights
    /\ journal.writes = 1
    /\ journal.requests = 0
    /\ journal.sent = <<[channel |-> "discord", insights |-> Placeholder, outcome |-> "sent"]>>

\* The files of the month are such as runs of the daily script leave them.
LeftByDailyRuns == data_dir[Yesterday] # Intact(UndatedDay)

\* C19: in one daily run the day's file is opened for writing at most
\* twice; a write replaces the file, so its text is always the start of the
\* record's text (or what it was before the run, when it could not be
\* opened) and never the old text followed by the new; and whatever the
\* daily runs left in the files of a month, loading skips the files that do
\* not parse and the aggregation of the others does not raise.
C19_ArtifactWrittenWhole ==
    /\ DailyRun =>
        /\ journal.writes <= 2
        /\ \/ data_dir[Today] \in TodayFiles
           \/ /\ journal.writes >= 1
              /\ data_dir[Today].exists
              /\ IsPrefix(data_dir[Today].text, json_dump(record, commit_data_keys))
    /\ MonthlyRun /\ LeftByDailyRuns =>
        /\ ~aggregate_monthly_data(loaded).raised
        /\ Len(loaded) =
              Cardinality({f \in Range(MonthFiles) :
                  /\ data_dir[f].exists
                  /\ ~json_load(data_dir[f].text).raised})
        /\ main_pc = "end" /\ exit_status = "1" => journal.writes = 1

\* The monthly run has ended with status 0 on a directory in which the
\* daily run left today's file cut short, replacing the file of an earlier
\* run: the file was skipped, yesterday's record was aggregated.
C19_TornFileSkipped ==
    /\ MonthlyRun
    /\ main_pc = "end"
    /\ exit_status = "0"
    /\ data_dir[Today].exists
    /\ Len(data_dir[Today].text) = 3
    /\ json_load(data_dir[Today].text).raised
    /\ Len(loaded) = 1
    /\ loaded[1].date = Jan(1)
    /\ record.total_commits = 3

(***************************************************************************)
(* Properties of generate_daily_insights and generate_monthly_insights     *)
(* (checked under SpecInsights)                                            *)
(***************************************************************************)

InsightsReturned == ins_pc = "return"

IsDailyCall == "date" \in DOMAIN ins_data

\* The call returned a string: the service's text when it delivered one,
\* the fallback text built from the record otherwise.
ReturnedTextOrFallback(fallback) ==
    /\ ~ins_result.raised
    /\ ins_result.text # NoText
    /\ ins_service = "text" => ins_result.text = AiText
    /\ ins_service # "text" => ins_result.text = fallback

\* C22: generate_daily_insights and generate_monthly_insights never raise:
\* for every record and each of the three outcomes of the service they
\* return a string, which is the fallback text built from the record
\* whenever the service delivered no text.
C22_InsightsNeverRaise ==
    InsightsReturned =>
        IF IsDailyCall
        THEN ReturnedTextOrFallback(_generate_fallback_insights(ins_data))
        ELSE ReturnedTextOrFallback(_generate_monthly_fallback(ins_data))

\* The part of it that holds: the monthly function always returns, and so
\* does the daily one when its record carries a non-empty 'previous_days'.
InsightsReturnWithPreviousDays ==
    InsightsReturned =>
        /\ ~IsDailyCall =>
                ReturnedTextOrFallback(_generate_monthly_fallback(ins_data))
        /\ IsDailyCall /\ previous_days(ins_data) # <<>> =>
                ReturnedTextOrFallback(_generate_fallback_insights(ins_data))
        /\ IsDailyCall /\ previous_days(ins_data) = <<>> =>
                ins_result.raised /\ ~ins_result.requested

\* generate_daily_insights was called with the record get_daily_commits
\* returned for two commits, the service ready to answer with a text: the
\* call raised before the service was asked.
C22_DailyInsightsRaised ==
    /\ InsightsReturned
    /\ IsDailyCall
    /\ "previous_days" \notin DOMAIN ins_data
    /\ ins_data.total_commits = 2
    /\ ins_service = "text"
    /\ ins_result.raised
    /\ ~ins_result.requested

\* The monthly function fell back on a raising service.
MonthlyFallbackReturned ==
    /\ InsightsReturned
    /\ ~IsDailyCall
    /\ ins_service = "raises"
    /\ ins_data.total_commits = 8
    /\ ins_result.text = _generate_monthly_fallback(ins_data)

(***************************************************************************)
(* Properties of the Discord embeds (checked under SpecEmbed)              *)
(***************************************************************************)

EmbedBuilt == embed_pc \in {"daily", "monthly"}

FieldsFit ==
    \A i \in DOMAIN embed_result : Len(embed_result[i].value) <= FIELD_VALUE_LIMIT

\* C26: the value of the AI-insights field of every embed the notifier
\* builds, daily or monthly, is at most 1024 characters long, whatever the
\* length of the insights text.
C26_InsightsFieldFits == EmbedBuilt => FieldsFit

\* The part of it that holds: the daily embed cuts at 1000 characters and
\* its field never exceeds 1003; the monthly embed cuts at 1500 and its
\* field is the whole text up to that length, 1503 characters beyond it.
InsightsFieldLengths ==
    LET n == Len(embed_insights)
    IN  /\ embed_pc = "daily" =>
            /\ FieldsFit
            /\ n > 0 =>
                 Len(embed_result[1].value) = (IF n > DAILY_CUT THEN DAILY_CUT + 3 ELSE n)
        /\ embed_pc = "monthly" /\ n > 0 =>
            Len(embed_result[1].value) = (IF n > MONTHLY_CUT THEN MONTHLY_CUT + 3 ELSE n)
        /\ EmbedBuilt /\ n = 0 => embed_result = <<>>

\* The monthly embed was built for an insights text of 1025 characters:
\* the field holds all 1025.
C26_MonthlyFieldTooLong ==
    /\ embed_pc = "monthly"
    /\ Len(embed_insights) = 1025
    /\ Len(embed_result) = 1
    /\ embed_result[1].value = embed_insights

\* The daily embed was built for the same text: 1000 characters and "...".
DailyFieldCut ==
    /\ embed_pc = "daily"
    /\ Len(embed_insights) = 1025
    /\ embed_result[1].value = SubSeq(embed_insights, 1, 1000) \o <<".", ".", ".">>

(***************************************************************************)
(* Properties of _estimate_time_spent on timestamps to the second          *)
(* (checked under SpecSeconds)                                             *)
(***************************************************************************)

\* The argument with one more commit of the same zone, at second t.
WithOneMore(t) == Append(sec_commits, [timestamp |-> t])

\* The window the timestamps span, in seconds.
WindowSeconds(commits) ==
    LET seconds == {commits[i].timestamp : i \in DOMAIN commits}
    IN  (CHOOSE x \in seconds : \A y \in seconds : y <= x)
        - (CHOOSE x \in seconds : \A y \in seconds : x <= y)

\* Whether the double x is above the exact number seconds / 3600: the
\* expansion of that number cut after DOUBLE_WIDTH digits is below x.
AboveExactHours(x, seconds) ==
    float_less(whole_digits(seconds \div SECONDS_PER_HOUR)
                   \o fraction_digits(seconds % SECONDS_PER_HOUR, SECONDS_PER_HOUR,
                                      DOUBLE_WIDTH - WHOLE_BITS),
               x)

\* C30 (as claimed): one more timestamp of the same zone never lowers the
\* estimate before rounding, and the estimate before rounding of
\* timestamps spanning a window of W hours is at most W + 0.5.
C30_MonotoneAndWithinWindow ==
    sec_pc = "return" =>
        /\ \A t \in SecondsOfDay :
               ~float_less(float_hours_before_rounding(WithOneMore(t)),
                           float_hours_before_rounding(sec_commits))
        /\ sec_commits # <<>> =>
               ~AboveExactHours(float_hours_before_rounding(sec_commits),
                                WindowSeconds(sec_commits) + SECONDS_PER_HOUR \div 2)

\* C30, reached case: two commits 3 minutes 18 seconds apart were estimated
\* at 0.56 hours, and with a third commit 2 seconds after the first the
\* returned estimate is 0.55 hours.
C30_EstimateLoweredByACommit ==
    /\ sec_pc = "return"
    /\ sec_commits = <<[timestamp |-> 0], [timestamp |-> 198]>>
    /\ sec_result = 56
    /\ float_estimate_time_spent(WithOneMore(2)) = 55

\* What does hold of the code: one more timestamp lowers the returned
\* estimate by at most 0.01 hours, and the returned estimate is at most
\* 0.01 hours above W + 0.5.
EstimateLoweredByAtMostOneHundredth ==
    sec_pc = "return" =>
        /\ \A t \in SecondsOfDay :
               float_estimate_time_spent(WithOneMore(t)) >= sec_result - 1
        /\ sec_commits # <<>> =>
               sec_result * 36
                   <= WindowSeconds(sec_commits) + SECONDS_PER_HOUR \div 2 + 36

\* The sum of two quotients was rounded below the quotient of the sum: the
\* total before rounding of the commits at seconds 0, 120 and 1440 is below
\* the one of the commits at seconds 0 and 1440.
TotalLoweredBeforeRounding ==
    /\ sec_pc = "return"
    /\ sec_commits = <<[timestamp |-> 0], [timestamp |-> 1440]>>
    /\ float_less(float_hours_before_rounding(WithOneMore(120)),
                  float_hours_before_rounding(sec_commits))
    /\ float_estimate_time_spent(WithOneMore(120)) = sec_result


====
